---- MODULE Spec2Model ----
(***************************************************************************)
(* Semantic classifiers of src/language-js/utils.js.                       *)
(*                                                                         *)
(* The classifiers are pure functions over AST nodes.  A node is a record  *)
(* carrying a `type` field and the fields the classifier reads; a field    *)
(* that is absent in the record is `undefined` in the program.  Every      *)
(* specification draws an input in its initial state and applies one       *)
(* classifier to it; the character scanner hasTopLevelBlankLines is        *)
(* modelled one loop iteration per step.                                   *)
(***************************************************************************)
EXTENDS Integers, Sequences, FiniteSets, TLC

VARIABLES
    fn,            \* the function under evaluation
    arg,           \* its arguments (a record)
    ret,           \* its return value, Pending until it returned
    pc,            \* "call" before the function ran, "scan" in the loop, "done" after
    i,             \* hasTopLevelBlankLines: loop index (0-based as in the source)
    curlyState,    \* hasTopLevelBlankLines: brace nesting depth
    newlineFound,  \* hasTopLevelBlankLines: a newline was seen and not reset
    leftMost,      \* returnArgumentHasLeadingComment: the node the loop is at
    visited        \* the values leftMost took, in order (history)

vars == <<fn, arg, ret, pc, i, curlyState, newlineFound, leftMost, visited>>

\* the outcome of a call that has not ended
Pending == [kind |-> "pending"]

(***************************************************************************)
(* Bounds of the model.                                                    *)
(***************************************************************************)
MaxHeight == 3        \* nesting height of the argument trees
MaxDepthArg == 4      \* largest `depth` handed to isSimpleCallArgument
MaxPatternLen == 6    \* longest regular-expression pattern

(***************************************************************************)
(* JavaScript values.                                                      *)
(***************************************************************************)
\* `node.f` is present (not undefined)
Has(node, f) == f \in DOMAIN node

\* `node.f` is truthy, for a boolean-valued field f
Flag(node, f) == Has(node, f) /\ node[f] = TRUE

\* the value `null` (a hole of an array expression)
JsNull == [null |-> TRUE]

IsNull(x) == Has(x, "null")

\* a string of n characters
Chars(n) == [k \in 1..n |-> "a"]

(***************************************************************************)
(* Node constructors.                                                      *)
(***************************************************************************)
Leaf(t) == [type |-> t]

Identifier(name) == [type |-> "Identifier", name |-> name]

RegExpLiteral(pattern) == [type |-> "RegExpLiteral", pattern |-> pattern]

\* an ESTree regular-expression literal: a generic Literal with a `regex` record
EstreeRegex(pattern) == [type |-> "Literal", regex |-> [pattern |-> pattern]]

Unary(op, x) == [type |-> "UnaryExpression", operator |-> op, argument |-> x]

NonNull(x) == [type |-> "TSNonNullExpression", expression |-> x]

Member(t, o, p) == [type |-> t, object |-> o, property |-> p]

Call(t, c, as) == [type |-> t, callee |-> c, arguments |-> as]

ArrayExpression(es) == [type |-> "ArrayExpression", elements |-> es]

TemplateLiteral(es) == [type |-> "TemplateLiteral", expressions |-> es]

ObjectExpression(ps) == [type |-> "ObjectExpression", properties |-> ps]

Property(computed, shorthand, v) ==
    [type |-> "ObjectProperty", computed |-> computed, shorthand |-> shorthand,
     value |-> v]

\* an object member that has no `value` (a spread, an object method)
SpreadElement(x) == [type |-> "SpreadElement", argument |-> x]

(***************************************************************************)
(* isLiteral, utils.js 141-155.                                            *)
(***************************************************************************)
isLiteral(node) ==
    \/ node.type = "BooleanLiteral"
    \/ node.type = "DirectiveLiteral"
    \/ node.type = "Literal"
    \/ node.type = "NullLiteral"
    \/ node.type = "NumericLiteral"
    \/ node.type = "BigIntLiteral"
    \/ node.type = "RegExpLiteral"
    \/ node.type = "StringLiteral"
    \/ node.type = "TemplateLiteral"
    \/ node.type = "TSTypeLiteral"
    \/ node.type = "JSXText"

(***************************************************************************)
(* isSimpleCallArgument, utils.js 939-1014.                                *)
(***************************************************************************)
\* length of `regexpPattern` (lines 947-949), 0 when it is falsy
regexpPatternLength(node) ==
    IF node.type = "Literal" /\ Has(node, "regex")
    THEN Len(node.regex.pattern)
    ELSE IF node.type = "RegExpLiteral" /\ Has(node, "pattern")
    THEN Len(node.pattern)
    ELSE 0

\* the kinds of lines 955-969
isSimpleBaseType(t) ==
    t \in {"Literal", "BigIntLiteral", "BooleanLiteral", "NullLiteral",
           "NumericLiteral", "RegExpLiteral", "StringLiteral", "Identifier",
           "ThisExpression", "Super", "PrivateName", "ArgumentPlaceholder",
           "Import"}

\* Mutant: the depth cutoff is off by one (depth > 3).
RECURSIVE isSimpleCallArgument_LateCutoff(_, _)
isSimpleCallArgument_LateCutoff(node, depth) ==
    IF depth > 3 THEN FALSE
    ELSE IF regexpPatternLength(node) > 5 THEN FALSE
    ELSE IF isSimpleBaseType(node.type) THEN TRUE
    ELSE IF node.type = "TemplateLiteral"
    THEN \A k \in 1..Len(node.expressions) :
            isSimpleCallArgument_LateCutoff(node.expressions[k], depth + 2)
    ELSE IF node.type = "ObjectExpression"
    THEN \A k \in 1..Len(node.properties) :
            LET p == node.properties[k]
            IN  /\ ~Flag(p, "computed")
                /\ \/ Flag(p, "shorthand")
                   \/ /\ Has(p, "value")
                      /\ isSimpleCallArgument_LateCutoff(p.value, depth + 2)
    ELSE IF node.type = "ArrayExpression"
    THEN \A k \in 1..Len(node.elements) :
            \/ IsNull(node.elements[k])
            \/ isSimpleCallArgument_LateCutoff(node.elements[k], depth + 2)
    ELSE IF node.type \in {"CallExpression", "OptionalCallExpression", "NewExpression"}
    THEN /\ isSimpleCallArgument_LateCutoff(node.callee, depth + 1)
         /\ \A k \in 1..Len(node.arguments) :
               isSimpleCallArgument_LateCutoff(node.arguments[k], depth + 2)
    ELSE IF node.type \in {"MemberExpression", "OptionalMemberExpression"}
    THEN /\ isSimpleCallArgument_LateCutoff(node.object, depth + 1)
         /\ isSimpleCallArgument_LateCutoff(node.property, depth + 1)
    ELSE IF node.type = "UnaryExpression" /\ node.operator \in {"!", "-"}
    THEN isSimpleCallArgument_LateCutoff(node.argument, depth + 1)
    ELSE IF node.type = "TSNonNullExpression"
    THEN isSimpleCallArgument_LateCutoff(node.expression, depth + 1)
    ELSE FALSE

\* Mutant: the length of a regular expression's pattern is not looked at.
RECURSIVE isSimpleCallArgument_AnyRegex(_, _)
isSimpleCallArgument_AnyRegex(node, depth) ==
    IF depth >= 3 THEN FALSE
    ELSE IF isSimpleBaseType(node.type) THEN TRUE
    ELSE IF node.type = "TemplateLiteral"
    THEN \A k \in 1..Len(node.expressions) :
            isSimpleCallArgument_AnyRegex(node.expressions[k], depth + 2)
    ELSE IF node.type = "ObjectExpression"
    THEN \A k \in 1..Len(node.properties) :
            LET p == node.properties[k]
            IN  /\ ~Flag(p, "computed")
                /\ \/ Flag(p, "shorthand")
                   \/ /\ Has(p, "value")
                      /\ isSimpleCallArgument_AnyRegex(p.value, depth + 2)
    ELSE IF node.type = "ArrayExpression"
    THEN \A k \in 1..Len(node.elements) :
            \/ IsNull(node.elements[k])
            \/ isSimpleCallArgument_AnyRegex(node.elements[k], depth + 2)
    ELSE IF node.type \in {"CallExpression", "OptionalCallExpression", "NewExpression"}
    THEN /\ isSimpleCallArgument_AnyRegex(node.callee, depth + 1)
         /\ \A k \in 1..Len(node.arguments) :
               isSimpleCallArgument_AnyRegex(node.arguments[k], depth + 2)
    ELSE IF node.type \in {"MemberExpression", "OptionalMemberExpression"}
    THEN /\ isSimpleCallArgument_AnyRegex(node.object, depth + 1)
         /\ isSimpleCallArgument_AnyRegex(node.property, depth + 1)
    ELSE IF node.type = "UnaryExpression" /\ node.operator \in {"!", "-"}
    THEN isSimpleCallArgument_AnyRegex(node.argument, depth + 1)
    ELSE IF node.type = "TSNonNullExpression"
    THEN isSimpleCallArgument_AnyRegex(node.expression, depth + 1)
    ELSE FALSE

\* Mutant: the arguments of a call are charged one level, like the callee.
RECURSIVE isSimpleCallArgument_CheapArgs(_, _)
isSimpleCallArgument_CheapArgs(node, depth) ==
    IF depth >= 3 THEN FALSE
    ELSE IF regexpPatternLength(node) > 5 THEN FALSE
    ELSE IF isSimpleBaseType(node.type) THEN TRUE
    ELSE IF node.type = "TemplateLiteral"
    THEN \A k \in 1..Len(node.expressions) :
            isSimpleCallArgument_CheapArgs(node.expressions[k], depth + 2)
    ELSE IF node.type = "ObjectExpression"
    THEN \A k \in 1..Len(node.properties) :
            LET p == node.properties[k]
            IN  /\ ~Flag(p, "computed")
                /\ \/ Flag(p, "shorthand")
                   \/ /\ Has(p, "value")
                      /\ isSimpleCallArgument_CheapArgs(p.value, depth + 2)
    ELSE IF node.type = "ArrayExpression"
    THEN \A k \in 1..Len(node.elements) :
            \/ IsNull(node.elements[k])
            \/ isSimpleCallArgument_CheapArgs(node.elements[k], depth + 2)
    ELSE IF node.type \in {"CallExpression", "OptionalCallExpression", "NewExpression"}
    THEN /\ isSimpleCallArgument_CheapArgs(node.callee, depth + 1)
         /\ \A k \in 1..Len(node.arguments) :
               isSimpleCallArgument_CheapArgs(node.arguments[k], depth + 1)
    ELSE IF node.type \in {"MemberExpression", "OptionalMemberExpression"}
    THEN /\ isSimpleCallArgument_CheapArgs(node.object, depth + 1)
         /\ isSimpleCallArgument_CheapArgs(node.property, depth + 1)
    ELSE IF node.type = "UnaryExpression" /\ node.operator \in {"!", "-"}
    THEN isSimpleCallArgument_CheapArgs(node.argument, depth + 1)
    ELSE IF node.type = "TSNonNullExpression"
    THEN isSimpleCallArgument_CheapArgs(node.expression, depth + 1)
    ELSE FALSE

\* Mutant: the cutoff is at depth 3 exactly; a greater depth passes it.
RECURSIVE isSimpleCallArgument_ExactCutoff(_, _)
isSimpleCallArgument_ExactCutoff(node, depth) ==
    IF depth = 3 THEN FALSE
    ELSE IF regexpPatternLength(node) > 5 THEN FALSE
    ELSE IF isSimpleBaseType(node.type) THEN TRUE
    ELSE IF node.type = "TemplateLiteral"
    THEN \A k \in 1..Len(node.expressions) :
            isSimpleCallArgument_ExactCutoff(node.expressions[k], depth + 2)
    ELSE IF node.type = "ObjectExpression"
    THEN \A k \in 1..Len(node.properties) :
            LET p == node.properties[k]
            IN  /\ ~Flag(p, "computed")
                /\ \/ Flag(p, "shorthand")
                   \/ /\ Has(p, "value")
                      /\ isSimpleCallArgument_ExactCutoff(p.value, depth + 2)
    ELSE IF node.type = "ArrayExpression"
    THEN \A k \in 1..Len(node.elements) :
            \/ IsNull(node.elements[k])
            \/ isSimpleCallArgument_ExactCutoff(node.elements[k], depth + 2)
    ELSE IF node.type \in {"CallExpression", "OptionalCallExpression", "NewExpression"}
    THEN /\ isSimpleCallArgument_ExactCutoff(node.callee, depth + 1)
         /\ \A k \in 1..Len(node.arguments) :
               isSimpleCallArgument_ExactCutoff(node.arguments[k], depth + 2)
    ELSE IF node.type \in {"MemberExpression", "OptionalMemberExpression"}
    THEN /\ isSimpleCallArgument_ExactCutoff(node.object, depth + 1)
         /\ isSimpleCallArgument_ExactCutoff(node.property, depth + 1)
    ELSE IF node.type = "UnaryExpression" /\ node.operator \in {"!", "-"}
    THEN isSimpleCallArgument_ExactCutoff(node.argument, depth + 1)
    ELSE IF node.type = "TSNonNullExpression"
    THEN isSimpleCallArgument_ExactCutoff(node.expression, depth + 1)
    ELSE FALSE

RECURSIVE isSimpleCallArgument(_, _)
isSimpleCallArgument(node, depth) ==
    IF depth >= 3 THEN FALSE
    ELSE IF regexpPatternLength(node) > 5 THEN FALSE
    ELSE IF isSimpleBaseType(node.type) THEN TRUE
    ELSE IF node.type = "TemplateLiteral"
    THEN \A k \in 1..Len(node.expressions) :
            isSimpleCallArgument(node.expressions[k], depth + 2)
    ELSE IF node.type = "ObjectExpression"
    THEN \A k \in 1..Len(node.properties) :
            LET p == node.properties[k]
            IN  /\ ~Flag(p, "computed")
                /\ \/ Flag(p, "shorthand")
                   \/ /\ Has(p, "value")
                      /\ isSimpleCallArgument(p.value, depth + 2)
    ELSE IF node.type = "ArrayExpression"
    THEN \A k \in 1..Len(node.elements) :
            \/ IsNull(node.elements[k])
            \/ isSimpleCallArgument(node.elements[k], depth + 2)
    ELSE IF node.type \in {"CallExpression", "OptionalCallExpression", "NewExpression"}
    THEN /\ isSimpleCallArgument(node.callee, depth + 1)
         /\ \A k \in 1..Len(node.arguments) :
               isSimpleCallArgument(node.arguments[k], depth + 2)
    ELSE IF node.type \in {"MemberExpression", "OptionalMemberExpression"}
    THEN /\ isSimpleCallArgument(node.object, depth + 1)
         /\ isSimpleCallArgument(node.property, depth + 1)
    ELSE IF node.type = "UnaryExpression" /\ node.operator \in {"!", "-"}
    THEN isSimpleCallArgument(node.argument, depth + 1)
    ELSE IF node.type = "TSNonNullExpression"
    THEN isSimpleCallArgument(node.expression, depth + 1)
    ELSE FALSE

(***************************************************************************)
(* Inputs of isSimpleCallArgument.                                         *)
(***************************************************************************)
Id == Identifier("a")

\* every kind without children, with regular expressions of every length
SimpleLeaves ==
    {Leaf(t) : t \in {"BooleanLiteral", "DirectiveLiteral", "Literal", "NullLiteral",
                      "NumericLiteral", "BigIntLiteral", "StringLiteral",
                      "TSTypeLiteral", "JSXText", "ThisExpression", "Super",
                      "PrivateName", "ArgumentPlaceholder", "Import",
                      "FunctionExpression", "BinaryExpression"}}
    \cup {Id}
    \cup {RegExpLiteral(Chars(n)) : n \in 1..MaxPatternLen}
    \cup {EstreeRegex(Chars(n)) : n \in 1..MaxPatternLen}

\* the leaves the nested trees are built from
CoreLeaves == {Id, Leaf("FunctionExpression"), RegExpLiteral(Chars(MaxPatternLen))}

\* the nodes with the child x, one for every edge the classifier follows
Wrap(x) ==
    { Unary("!", x),
      NonNull(x),
      Member("MemberExpression", x, Id),
      Call("CallExpression", x, <<>>),
      Call("CallExpression", Id, <<x>>),
      ArrayExpression(<<JsNull, x>>),
      TemplateLiteral(<<x>>),
      ObjectExpression(<<Property(FALSE, FALSE, x)>>) }

\* the other kinds and positions of a child x
WrapMore(x) ==
    { Unary("typeof", x), Unary("-", x),
      Member("OptionalMemberExpression", Id, x),
      Call("OptionalCallExpression", x, <<Id>>),
      Call("NewExpression", Id, <<Id, x>>) }

RECURSIVE Trees(_)
Trees(h) ==
    IF h = 0 THEN CoreLeaves
    ELSE LET sub == Trees(h - 1)
         IN  CoreLeaves \cup UNION {Wrap(x) : x \in sub}

\* containers with no part, with two parts, and the kinds of object member
OddNodes ==
    { Call("CallExpression", Id, <<Id, Id>>),
      TemplateLiteral(<<>>),
      ArrayExpression(<<>>),
      ObjectExpression(<<>>),
      ObjectExpression(<<Property(TRUE, FALSE, Id)>>),
      ObjectExpression(<<Property(FALSE, TRUE, Leaf("FunctionExpression"))>>),
      ObjectExpression(<<SpreadElement(Id)>>),
      ObjectExpression(<<Property(FALSE, FALSE, Id), Property(TRUE, FALSE, Id)>>) }

\* the arguments of height h at most
SimpleArgs(h) ==
    SimpleLeaves \cup Trees(h) \cup OddNodes
        \cup UNION {WrapMore(x) : x \in Trees(h - 2)}

(***************************************************************************)
(* The specification of isSimpleCallArgument.                              *)
(***************************************************************************)
Idle ==
    /\ ret = Pending
    /\ i = 0
    /\ curlyState = 0
    /\ newlineFound = FALSE
    /\ leftMost = JsNull
    /\ visited = <<>>

InitSimple ==
    /\ fn = "isSimpleCallArgument"
    /\ arg \in [node : SimpleArgs(MaxHeight), depth : 0..MaxDepthArg]
    /\ pc = "call"
    /\ Idle

CallIsSimpleCallArgument ==
    /\ pc = "call"
    /\ fn = "isSimpleCallArgument"
    /\ ret' = isSimpleCallArgument(arg.node, arg.depth)
    /\ pc' = "done"
    /\ UNCHANGED <<fn, arg, i, curlyState, newlineFound, leftMost, visited>>

NextSimple == CallIsSimpleCallArgument

SpecSimple == InitSimple /\ [][NextSimple]_vars

Returned(f) == pc = "done" /\ fn = f

(***************************************************************************)
(* C1: isSimpleCallArgument(x, depth) is false for every node x, of any    *)
(* kind, whenever depth >= 3.                                              *)
(***************************************************************************)
C1_CutoffAtDepth3 ==
    (Returned("isSimpleCallArgument") /\ arg.depth >= 3) => ret = FALSE

\* an identifier, simple at depth 0, is refused at depth 3
C1_Witness ==
    /\ Returned("isSimpleCallArgument")
    /\ arg.depth = 3
    /\ arg.node = Id
    /\ ret = FALSE

(***************************************************************************)
(* C2 as claimed: isSimpleCallArgument(n, 0) is true for every node n for  *)
(* which isLiteral(n) holds, whatever the literal's contents.              *)
(***************************************************************************)
C2_EveryLiteralSimple ==
    (Returned("isSimpleCallArgument") /\ arg.depth = 0 /\ isLiteral(arg.node))
        => ret = TRUE

(***************************************************************************)
(* C2 as amended: for a node n for which isLiteral(n) holds,               *)
(* isSimpleCallArgument(n, 0) is true exactly when n is a boolean, null,   *)
(* numeric, big-int or string literal or a generic Literal that is not a   *)
(* regular expression, or a regular expression whose pattern has at most 5 *)
(* characters, or a template literal whose every interpolated expression   *)
(* is simple at depth 2; it is false for a directive literal, a TS type    *)
(* literal and JSX text.                                                   *)
(***************************************************************************)
C2_SimpleLiteralKinds ==
    (Returned("isSimpleCallArgument") /\ arg.depth = 0 /\ isLiteral(arg.node))
        => (ret = TRUE <=>
              \/ arg.node.type \in {"BooleanLiteral", "NullLiteral", "NumericLiteral",
                                    "BigIntLiteral", "StringLiteral"}
              \/ arg.node.type = "Literal" /\ ~Has(arg.node, "regex")
              \/ arg.node.type = "Literal" /\ Has(arg.node, "regex")
                    /\ Len(arg.node.regex.pattern) <= 5
              \/ arg.node.type = "RegExpLiteral" /\ Len(arg.node.pattern) <= 5
              \/ arg.node.type = "TemplateLiteral"
                    /\ \A k \in 1..Len(arg.node.expressions) :
                          isSimpleCallArgument(arg.node.expressions[k], 2))

\* a regular expression of 5 characters is simple at depth 0
C2_Witness ==
    /\ Returned("isSimpleCallArgument")
    /\ arg.depth = 0
    /\ arg.node = RegExpLiteral(Chars(5))
    /\ ret = TRUE

(***************************************************************************)
(* The reference classifier of C3, written from the claim: the callee of a *)
(* call and the parts of a member expression, a unary `!`/`-` and a        *)
(* non-null assertion cost one level, the arguments of a call and the      *)
(* parts of a template, object or array literal cost two.                  *)
(***************************************************************************)
RefBaseKinds ==
    {"Literal", "BigIntLiteral", "BooleanLiteral", "NullLiteral", "NumericLiteral",
     "StringLiteral", "Identifier", "ThisExpression", "Super", "PrivateName",
     "ArgumentPlaceholder", "Import"}

RefIsRegex(n) == n.type = "RegExpLiteral" \/ (n.type = "Literal" /\ Has(n, "regex"))

RefPattern(n) == IF n.type = "RegExpLiteral" THEN n.pattern ELSE n.regex.pattern

RECURSIVE RefSimple(_, _)
RefSimple(n, d) ==
    /\ d \in 0..2
    /\ CASE RefIsRegex(n) -> Len(RefPattern(n)) <= 5
         [] n.type \in {"CallExpression", "OptionalCallExpression", "NewExpression"} ->
                /\ RefSimple(n.callee, d + 1)
                /\ \A k \in 1..Len(n.arguments) : RefSimple(n.arguments[k], d + 2)
         [] n.type \in {"MemberExpression", "OptionalMemberExpression"} ->
                RefSimple(n.object, d + 1) /\ RefSimple(n.property, d + 1)
         [] n.type = "UnaryExpression" ->
                n.operator \in {"!", "-"} /\ RefSimple(n.argument, d + 1)
         [] n.type = "TSNonNullExpression" -> RefSimple(n.expression, d + 1)
         [] n.type = "TemplateLiteral" ->
                \A k \in 1..Len(n.expressions) : RefSimple(n.expressions[k], d + 2)
         [] n.type = "ObjectExpression" ->
                \A k \in 1..Len(n.properties) :
                    /\ ~Flag(n.properties[k], "computed")
                    /\ \/ Flag(n.properties[k], "shorthand")
                       \/ /\ Has(n.properties[k], "value")
                          /\ RefSimple(n.properties[k].value, d + 2)
         [] n.type = "ArrayExpression" ->
                \A k \in 1..Len(n.elements) :
                    IsNull(n.elements[k]) \/ RefSimple(n.elements[k], d + 2)
         [] OTHER -> n.type \in RefBaseKinds

FooAB == Call("CallExpression", Id, <<Id, Id>>)

FooBarBazQux ==
    Call("CallExpression", Id,
         <<Call("CallExpression", Id, <<Call("CallExpression", Id, <<Id>>)>>)>>)

(***************************************************************************)
(* C3: for every depth in 0..2, isSimpleCallArgument(node, depth) equals   *)
(* the reference classifier with the asymmetric costs; at depth 0          *)
(* `foo(a, b)` is simple and `foo(bar(baz(qux)))` is not.                  *)
(***************************************************************************)
C3_MatchesReference ==
    Returned("isSimpleCallArgument") =>
        /\ arg.depth \in 0..2 => ret = RefSimple(arg.node, arg.depth)
        /\ (arg.depth = 0 /\ arg.node = FooAB) => ret = TRUE
        /\ (arg.depth = 0 /\ arg.node = FooBarBazQux) => ret = FALSE

\* foo(bar(baz(qux))) was classified at depth 0
C3_Witness ==
    /\ Returned("isSimpleCallArgument")
    /\ arg.depth = 0
    /\ arg.node = FooBarBazQux
    /\ ret = FALSE

(***************************************************************************)
(* hasBlankLinesInBlock / hasTopLevelBlankLines, utils.js 1050-1114.       *)
(* A text is a sequence of characters.                                     *)
(***************************************************************************)
MaxTextLen == 4       \* characters between the braces of a block

TextChars == {"{", "}", "\n", " ", "x"}

\* the texts of at most n characters
RECURSIVE TextsUpTo(_)
TextsUpTo(n) ==
    IF n = 0 THEN {<<>>}
    ELSE LET shorter == TextsUpTo(n - 1)
         IN  shorter \cup {Append(t, c) : t \in {u \in shorter : Len(u) = n - 1},
                                          c \in TextChars}

\* the source texts of a block statement: its braces and at most n characters
\* between them
BlockTexts(n) == {<<"{">> \o t \o <<"}">> : t \in TextsUpTo(n)}

\* what precedes and follows the block in the file
Paddings == {<<>>, <<"\n">>}

\* String.prototype.slice(start, end), for 0 <= start <= end <= length
slice(text, start, end) == SubSeq(text, start + 1, end)

\* originalBlockText, lines 1051-1054
source == slice(arg.originalText, arg.locStart, arg.locEnd)

InitBlank ==
    /\ fn = "hasBlankLinesInBlock"
    /\ \E b \in BlockTexts(MaxTextLen), before \in Paddings, after \in Paddings :
          arg = [originalText |-> before \o b \o after,
                 locStart |-> Len(before),
                 locEnd |-> Len(before) + Len(b)]
    /\ pc = "call"
    /\ Idle

\* lines 1050-1055 and 1086-1090: slice the block's text and enter the loop
CallHasBlankLinesInBlock ==
    /\ pc = "call"
    /\ fn = "hasBlankLinesInBlock"
    /\ pc' = "scan"
    /\ i' = 0
    /\ curlyState' = 0
    /\ newlineFound' = FALSE
    /\ UNCHANGED <<fn, arg, ret, leftMost, visited>>

\* one iteration of the loop of lines 1090-1110
ScanStep ==
    /\ pc = "scan"
    /\ i < Len(source)
    /\ LET char == source[i + 1]
       IN  IF char = "{"
           THEN /\ curlyState' = curlyState + 1
                /\ i' = i + 1
                /\ UNCHANGED <<newlineFound, ret, pc>>
           ELSE IF char = "}"
           THEN /\ curlyState' = curlyState - 1
                /\ i' = i + 1
                /\ UNCHANGED <<newlineFound, ret, pc>>
           ELSE IF curlyState = 1
           THEN IF char = "\n" /\ newlineFound
                THEN /\ ret' = TRUE
                     /\ pc' = "done"
                     /\ UNCHANGED <<i, curlyState, newlineFound>>
                ELSE IF char = "\n"
                THEN /\ newlineFound' = TRUE
                     /\ i' = i + 1
                     /\ UNCHANGED <<curlyState, ret, pc>>
                ELSE IF char # " "
                THEN /\ newlineFound' = FALSE
                     /\ i' = i + 1
                     /\ UNCHANGED <<curlyState, ret, pc>>
                ELSE /\ i' = i + 1
                     /\ UNCHANGED <<curlyState, newlineFound, ret, pc>>
           ELSE /\ i' = i + 1
                /\ UNCHANGED <<curlyState, newlineFound, ret, pc>>
    /\ UNCHANGED <<fn, arg, leftMost, visited>>

\* line 1112: the loop ended without finding a blank line
ScanEnd ==
    /\ pc = "scan"
    /\ i >= Len(source)
    /\ ret' = FALSE
    /\ pc' = "done"
    /\ UNCHANGED <<fn, arg, i, curlyState, newlineFound, leftMost, visited>>

NextBlank == CallHasBlankLinesInBlock \/ ScanStep \/ ScanEnd

SpecBlank == InitBlank /\ [][NextBlank]_vars

\* brace-nesting depth at the k-th character of a text (1-based): the opening
\* braces before it less the closing ones
NestingAt(text, k) ==
    Cardinality({j \in 1..(k - 1) : text[j] = "{"})
        - Cardinality({j \in 1..(k - 1) : text[j] = "}"})

\* two newlines at nesting depth 1 with nothing but spaces between them
HasBlankLineAtTopLevel(text) ==
    \E a, b \in 1..Len(text) :
        /\ a < b
        /\ text[a] = "\n"
        /\ text[b] = "\n"
        /\ NestingAt(text, a) = 1
        /\ \A k \in (a + 1)..(b - 1) : text[k] = " "

(***************************************************************************)
(* C4: the blank-line scanner returns true if and only if the text         *)
(* contains, at brace-nesting depth exactly 1, two newline characters with *)
(* nothing but space characters between them (no brace, nested block or    *)
(* other character in between).                                            *)
(***************************************************************************)
C4_BlankLineIffTopLevel ==
    Returned("hasBlankLinesInBlock") =>
        (ret = TRUE <=> HasBlankLineAtTopLevel(source))

\* the half of C4 the scanner does satisfy: a blank line at the top level is found
C4_TopLevelBlankLineFound ==
    (Returned("hasBlankLinesInBlock") /\ HasBlankLineAtTopLevel(source))
        => ret = TRUE

(***************************************************************************)
(* The testing-framework call recognizer, utils.js 175-223 and 345-401.    *)
(***************************************************************************)
MaxParams == 2        \* parameters of a test callback

\* `undefined` (no parent was handed over)
JsUndefined == [undefined |-> TRUE]

IsUndefined(x) == Has(x, "undefined")

\* `typeof node.value`, the value being a record tagged with its type
TypeofValue(node) == IF Has(node, "value") THEN node.value.typeof ELSE "undefined"

StringValue == [typeof |-> "string", str |-> "x"]

NumberValue == [typeof |-> "number", num |-> 5000]

EstreeLiteral(v) == [type |-> "Literal", value |-> v]

\* lines 175-180
isNumericLiteral(node) ==
    \/ node.type = "NumericLiteral"
    \/ node.type = "Literal" /\ TypeofValue(node) = "number"

\* lines 182-187
isStringLiteral(node) ==
    \/ node.type = "StringLiteral"
    \/ node.type = "Literal" /\ TypeofValue(node) = "string"

\* lines 193-198
isFunctionOrArrowExpression(node) ==
    \/ node.type = "FunctionExpression"
    \/ node.type = "ArrowFunctionExpression"

\* lines 200-206
isFunctionOrArrowExpressionWithBody(node) ==
    \/ node.type = "FunctionExpression"
    \/ node.type = "ArrowFunctionExpression" /\ node.body.type = "BlockStatement"

\* lines 208-210
isTemplateLiteral(node) == node.type = "TemplateLiteral"

\* Mutant: an optional call is no wrapper.
isAngularTestWrapper_CallOnly(node) ==
    /\ node.type = "CallExpression"
    /\ node.callee.type = "Identifier"
    /\ \/ node.callee.name = "async"
       \/ node.callee.name = "inject"
       \/ node.callee.name = "fakeAsync"

\* lines 214-223
isAngularTestWrapper(node) ==
    /\ node.type = "CallExpression" \/ node.type = "OptionalCallExpression"
    /\ node.callee.type = "Identifier"
    /\ \/ node.callee.name = "async"
       \/ node.callee.name = "inject"
       \/ node.callee.name = "fakeAsync"

\* Mutant: the pattern is /^[fx]?(it|describe|test)$/, without the `skip` alternative.
unitTestRe_NoSkip(name) ==
    \E p \in {"", "f", "x"}, t \in {"it", "describe", "test"} : name = p \o t

\* line 345: /^(skip|[fx]?(it|describe|test))$/.test(name)
unitTestRe(name) ==
    \/ name = "skip"
    \/ \E p \in {"", "f", "x"}, t \in {"it", "describe", "test"} : name = p \o t

\* lines 347-357
isSkipOrOnlyBlock(node) ==
    /\ \/ node.callee.type = "MemberExpression"
       \/ node.callee.type = "OptionalMemberExpression"
    /\ node.callee.object.type = "Identifier"
    /\ node.callee.property.type = "Identifier"
    /\ unitTestRe(node.callee.object.name)
    /\ \/ node.callee.property.name = "only"
       \/ node.callee.property.name = "skip"

\* line 360: /^(before|after)(Each|All)$/.test(name)
unitTestSetUpRe(name) ==
    \E p \in {"before", "after"}, s \in {"Each", "All"} : name = p \o s

\* lines 359-366
isUnitTestSetUp(n) ==
    /\ n.callee.type = "Identifier"
    /\ unitTestSetUpRe(n.callee.name)
    /\ Len(n.arguments) = 1

\* lines 369-401
RECURSIVE isTestCall(_, _)
isTestCall(n, parent) ==
    IF n.type # "CallExpression" THEN FALSE
    ELSE IF Len(n.arguments) = 1
    THEN IF isAngularTestWrapper(n) /\ ~IsUndefined(parent)
            /\ isTestCall(parent, JsUndefined)
         THEN isFunctionOrArrowExpression(n.arguments[1])
         ELSE IF isUnitTestSetUp(n)
         THEN isAngularTestWrapper(n.arguments[1])
         ELSE FALSE
    ELSE IF Len(n.arguments) = 2 \/ Len(n.arguments) = 3
    THEN IF /\ \/ n.callee.type = "Identifier" /\ unitTestRe(n.callee.name)
               \/ isSkipOrOnlyBlock(n)
            /\ \/ isTemplateLiteral(n.arguments[1])
               \/ isStringLiteral(n.arguments[1])
         THEN IF Len(n.arguments) >= 3 /\ ~isNumericLiteral(n.arguments[3])
              THEN FALSE
              ELSE \/ IF Len(n.arguments) = 2
                      THEN isFunctionOrArrowExpression(n.arguments[2])
                      ELSE /\ isFunctionOrArrowExpressionWithBody(n.arguments[2])
                           /\ Len(n.arguments[2].params) <= 1
                   \/ isAngularTestWrapper(n.arguments[2])
         ELSE FALSE
    ELSE FALSE

(***************************************************************************)
(* Inputs of isTestCall.                                                   *)
(***************************************************************************)
Params(k) == [j \in 1..k |-> Id]

FunctionExpression(k) == [type |-> "FunctionExpression", params |-> Params(k)]

ArrowFunctionExpression(k, bodyType) ==
    [type |-> "ArrowFunctionExpression", params |-> Params(k), body |-> Leaf(bodyType)]

CalleeNames ==
    {"it", "xit", "fdescribe", "test", "skip", "foo", "its", "beforeEach", "inject"}

TestCallees ==
    {Identifier(nm) : nm \in CalleeNames}
    \cup {Member(t, Identifier(o), Identifier(p)) :
            t \in {"MemberExpression", "OptionalMemberExpression"},
            o \in {"it", "xdescribe", "skip", "foo"},
            p \in {"only", "skip", "each"}}
    \cup {Member("MemberExpression", Leaf("ThisExpression"), Identifier("only")),
          Member("MemberExpression", Identifier("it"), Leaf("StringLiteral")),
          Leaf("FunctionExpression")}

TestNames ==
    {Leaf("StringLiteral"), TemplateLiteral(<<>>), EstreeLiteral(StringValue),
     EstreeLiteral(NumberValue), Id}

\* callbacks of at most n parameters, and what else stands in their place
TestCallbacks(n) ==
    {FunctionExpression(k) : k \in 0..n}
    \cup {ArrowFunctionExpression(k, b) :
            k \in 0..n, b \in {"BlockStatement", "CallExpression"}}
    \cup {Call("CallExpression", Identifier("async"), <<FunctionExpression(0)>>),
          Call("OptionalCallExpression", Identifier("fakeAsync"), <<FunctionExpression(0)>>),
          Call("CallExpression", Identifier("foo"), <<FunctionExpression(0)>>),
          Call("CallExpression", Leaf("FunctionExpression"), <<>>),
          Id}

TestTimeouts ==
    {Leaf("NumericLiteral"), EstreeLiteral(NumberValue), Leaf("StringLiteral"),
     EstreeLiteral(StringValue)}

\* calls with two and three arguments
TestCalls23(n) ==
    {Call("CallExpression", c, <<a1, a2>>) :
        c \in TestCallees, a1 \in TestNames, a2 \in TestCallbacks(n)}
    \cup {Call("CallExpression", c, <<a1, a2, a3>>) :
        c \in TestCallees, a1 \in TestNames, a2 \in TestCallbacks(n), a3 \in TestTimeouts}

\* an enclosing call that is a test call, and one that is not
TestParents ==
    {JsUndefined,
     Call("CallExpression", Identifier("it"),
          <<Leaf("StringLiteral"), Call("CallExpression", Identifier("async"), <<FunctionExpression(0)>>)>>),
     Call("CallExpression", Identifier("foo"),
          <<Leaf("StringLiteral"), Call("CallExpression", Identifier("async"), <<FunctionExpression(0)>>)>>)}

\* calls with one argument, with no argument and with four, and nodes that are no
\* CallExpression
TestCallsOther(n) ==
    {Call("CallExpression", Identifier(nm), <<a>>) :
        nm \in {"async", "inject", "fakeAsync", "beforeEach", "afterAll", "before", "it"},
        a \in TestCallbacks(n)}
    \cup {Call("CallExpression", Identifier("it"), <<>>),
          Call("CallExpression", Identifier("it"),
               <<Leaf("StringLiteral"), FunctionExpression(0), Leaf("NumericLiteral"), Id>>),
          Call("OptionalCallExpression", Identifier("it"),
               <<Leaf("StringLiteral"), FunctionExpression(0)>>),
          Call("NewExpression", Identifier("it"),
               <<Leaf("StringLiteral"), FunctionExpression(0)>>),
          Id}

InitTest ==
    /\ fn = "isTestCall"
    /\ \/ arg \in [n : TestCalls23(MaxParams), parent : {JsUndefined}]
       \/ arg \in [n : TestCallsOther(MaxParams), parent : TestParents]
    /\ pc = "call"
    /\ Idle

CallIsTestCall ==
    /\ pc = "call"
    /\ fn = "isTestCall"
    /\ ret' = isTestCall(arg.n, arg.parent)
    /\ pc' = "done"
    /\ UNCHANGED <<fn, arg, i, curlyState, newlineFound, leftMost, visited>>

NextTest == CallIsTestCall

SpecTest == InitTest /\ [][NextTest]_vars

\* the trigger names of the claim: describe, it, test, optionally prefixed by f or x
IsTriggerName(name) ==
    name \in {"describe", "it", "test", "fdescribe", "fit", "ftest",
              "xdescribe", "xit", "xtest"}

\* a member expression whose object is an identifier: its property is .only or .skip
IsOnlyOrSkipOf(c) ==
    /\ c.type \in {"MemberExpression", "OptionalMemberExpression"}
    /\ c.object.type = "Identifier"
    /\ c.property.type = "Identifier"
    /\ c.property.name \in {"only", "skip"}

\* an async-wrapper call
IsWrapperCall(a) ==
    /\ a.type \in {"CallExpression", "OptionalCallExpression"}
    /\ a.callee.type = "Identifier"
    /\ a.callee.name \in {"async", "inject", "fakeAsync"}

IsStringOrTemplate(a) ==
    \/ a.type \in {"StringLiteral", "TemplateLiteral"}
    \/ a.type = "Literal" /\ TypeofValue(a) = "string"

IsNumeric(a) ==
    \/ a.type = "NumericLiteral"
    \/ a.type = "Literal" /\ TypeofValue(a) = "number"

IsFunctionOrArrow(a) == a.type \in {"FunctionExpression", "ArrowFunctionExpression"}

HasBlockBody(a) ==
    \/ a.type = "FunctionExpression"
    \/ a.type = "ArrowFunctionExpression" /\ a.body.type = "BlockStatement"

TwoOrThreeArgs ==
    /\ Returned("isTestCall")
    /\ arg.n.type = "CallExpression"
    /\ Len(arg.n.arguments) \in {2, 3}

(***************************************************************************)
(* C5 as claimed: for a CallExpression with two or three arguments,        *)
(* isTestCall is true if and only if the callee is a bare identifier named *)
(* (optionally f/x-prefixed) describe, it or test, or such a trigger       *)
(* suffixed with .only or .skip; the first argument is a string or         *)
(* template literal; the third argument, when present, is a numeric        *)
(* literal; and the second argument is a function/arrow expression that    *)
(* has at most one parameter whenever it has a block body, or is an        *)
(* async-wrapper call.                                                     *)
(***************************************************************************)
C5_TestCallAsClaimed ==
    TwoOrThreeArgs =>
        (ret = TRUE <=>
            /\ \/ arg.n.callee.type = "Identifier" /\ IsTriggerName(arg.n.callee.name)
               \/ IsOnlyOrSkipOf(arg.n.callee) /\ IsTriggerName(arg.n.callee.object.name)
            /\ IsStringOrTemplate(arg.n.arguments[1])
            /\ Len(arg.n.arguments) = 3 => IsNumeric(arg.n.arguments[3])
            /\ \/ /\ IsFunctionOrArrow(arg.n.arguments[2])
                  /\ HasBlockBody(arg.n.arguments[2])
                        => Len(arg.n.arguments[2].params) <= 1
               \/ IsWrapperCall(arg.n.arguments[2]))

(***************************************************************************)
(* C5 as amended: for a CallExpression with two or three arguments,        *)
(* isTestCall is true if and only if the callee is a bare identifier named *)
(* `skip` or (optionally f/x-prefixed) describe, it or test, or such an    *)
(* identifier suffixed with .only or .skip; the first argument is a string *)
(* or template literal; the third argument, when present, is a numeric     *)
(* literal; and the second argument is an async-wrapper call, or, with two *)
(* arguments, any function/arrow expression, or, with three arguments, a   *)
(* function expression or block-bodied arrow with at most one parameter.   *)
(***************************************************************************)
C5_TestCallAmended ==
    TwoOrThreeArgs =>
        (ret = TRUE <=>
            /\ \/ /\ arg.n.callee.type = "Identifier"
                  /\ (arg.n.callee.name = "skip" \/ IsTriggerName(arg.n.callee.name))
               \/ /\ IsOnlyOrSkipOf(arg.n.callee)
                  /\ \/ arg.n.callee.object.name = "skip"
                     \/ IsTriggerName(arg.n.callee.object.name)
            /\ IsStringOrTemplate(arg.n.arguments[1])
            /\ Len(arg.n.arguments) = 3 => IsNumeric(arg.n.arguments[3])
            /\ \/ IsWrapperCall(arg.n.arguments[2])
               \/ /\ Len(arg.n.arguments) = 2
                  /\ IsFunctionOrArrow(arg.n.arguments[2])
               \/ /\ Len(arg.n.arguments) = 3
                  /\ HasBlockBody(arg.n.arguments[2])
                  /\ Len(arg.n.arguments[2].params) <= 1)

\* it("x", () => {}, 5000) is a test call
C5_Witness ==
    /\ Returned("isTestCall")
    /\ arg.n = Call("CallExpression", Identifier("it"),
                    <<Leaf("StringLiteral"), ArrowFunctionExpression(0, "BlockStatement"),
                      Leaf("NumericLiteral")>>)
    /\ ret = TRUE

(***************************************************************************)
(* The chain and template detectors, utils.js 255-266 and 449-498.         *)
(***************************************************************************)
MaxChain == 2         \* member accesses in a chain

\* Mutant: the walk stops at the first object that is no member expression,
\* whatever it is.
RECURSIVE isMemberExpressionChain_AnyRoot(_)
isMemberExpressionChain_AnyRoot(node) ==
    IF node.type # "MemberExpression" /\ node.type # "OptionalMemberExpression"
    THEN FALSE
    ELSE IF node.object.type # "MemberExpression"
            /\ node.object.type # "OptionalMemberExpression"
    THEN TRUE
    ELSE isMemberExpressionChain_AnyRoot(node.object)

\* lines 255-266
RECURSIVE isMemberExpressionChain(_)
isMemberExpressionChain(node) ==
    IF node.type # "MemberExpression" /\ node.type # "OptionalMemberExpression"
    THEN FALSE
    ELSE IF node.object.type = "Identifier"
    THEN TRUE
    ELSE isMemberExpressionChain(node.object)

\* the `while` loop of lines 471-487 and the test of lines 489-493, entered with a
\* member expression as `head`
RECURSIVE simpleTemplateChain(_)
simpleTemplateChain(head) ==
    IF /\ head.property.type # "Identifier"
       /\ head.property.type # "Literal"
       /\ head.property.type # "StringLiteral"
       /\ head.property.type # "NumericLiteral"
    THEN FALSE
    ELSE IF Has(head.object, "comments")
    THEN FALSE
    ELSE IF \/ head.object.type = "MemberExpression"
            \/ head.object.type = "OptionalMemberExpression"
    THEN simpleTemplateChain(head.object)
    ELSE \/ head.object.type = "Identifier"
         \/ head.object.type = "ThisExpression"

\* the callback of lines 454-497
isSimpleTemplateExpression(expr) ==
    IF Has(expr, "comments") THEN FALSE
    ELSE IF expr.type = "Identifier" \/ expr.type = "ThisExpression" THEN TRUE
    ELSE IF expr.type = "MemberExpression" \/ expr.type = "OptionalMemberExpression"
    THEN simpleTemplateChain(expr)
    ELSE FALSE

\* lines 449-498
isSimpleTemplateLiteral(node) ==
    IF Len(node.expressions) = 0
    THEN FALSE
    ELSE \A k \in 1..Len(node.expressions) :
            isSimpleTemplateExpression(node.expressions[k])

(***************************************************************************)
(* Inputs of the chain and template detectors.                             *)
(***************************************************************************)
\* the `comments` list of a node that carries a comment (it is never empty)
Comments == <<[value |-> "c"]>>

CommentedId == [type |-> "Identifier", name |-> "a", comments |-> Comments]

CommentedMember(t, o, p) ==
    [type |-> t, object |-> o, property |-> p, comments |-> Comments]

ChainRoots ==
    {Id, Leaf("ThisExpression"), Call("CallExpression", Id, <<>>),
     Leaf("StringLiteral"), CommentedId}

\* the member expressions on the object x
Links(x) ==
    { Member("MemberExpression", x, Id),
      Member("OptionalMemberExpression", x, Id),
      Member("MemberExpression", x, Leaf("StringLiteral")),
      Member("MemberExpression", x, Call("CallExpression", Id, <<>>)),
      Member("MemberExpression", x, CommentedId),
      CommentedMember("MemberExpression", x, Id) }

\* the other kinds of property
LinksMore(x) ==
    { Member("MemberExpression", x, Leaf("NumericLiteral")),
      Member("OptionalMemberExpression", x, EstreeLiteral(StringValue)),
      Member("MemberExpression", x, TemplateLiteral(<<>>)),
      CommentedMember("OptionalMemberExpression", x, CommentedId) }

\* the chains of k member accesses at most
RECURSIVE Chains(_)
Chains(k) ==
    IF k = 0 THEN ChainRoots
    ELSE LET shorter == Chains(k - 1)
         IN  shorter \cup UNION {Links(x) \cup LinksMore(x) : x \in shorter}

InitChain ==
    /\ fn = "isMemberExpressionChain"
    /\ arg \in [node : Chains(MaxChain)]
    /\ pc = "call"
    /\ Idle

CallIsMemberExpressionChain ==
    /\ pc = "call"
    /\ fn = "isMemberExpressionChain"
    /\ ret' = isMemberExpressionChain(arg.node)
    /\ pc' = "done"
    /\ UNCHANGED <<fn, arg, i, curlyState, newlineFound, leftMost, visited>>

NextChain == CallIsMemberExpressionChain

SpecChain == InitChain /\ [][NextChain]_vars

\* the expressions of a template with two interpolations
PairExprs ==
    {Id, Member("MemberExpression", Id, Id), Leaf("StringLiteral"),
     Member("MemberExpression", Id, CommentedId)}

\* templates over the chains of k member accesses at most
TemplateArgs(k) ==
    {TemplateLiteral(<<>>)}
    \cup {TemplateLiteral(<<e>>) : e \in Chains(k)}
    \cup {TemplateLiteral(<<e1, e2>>) : e1 \in PairExprs, e2 \in PairExprs}

InitTemplate ==
    /\ fn = "isSimpleTemplateLiteral"
    /\ arg \in [node : TemplateArgs(MaxChain)]
    /\ pc = "call"
    /\ Idle

CallIsSimpleTemplateLiteral ==
    /\ pc = "call"
    /\ fn = "isSimpleTemplateLiteral"
    /\ ret' = isSimpleTemplateLiteral(arg.node)
    /\ pc' = "done"
    /\ UNCHANGED <<fn, arg, i, curlyState, newlineFound, leftMost, visited>>

NextTemplate == CallIsSimpleTemplateLiteral

SpecTemplate == InitTemplate /\ [][NextTemplate]_vars

IsMember(n) == n.type \in {"MemberExpression", "OptionalMemberExpression"}

\* the node at which the walk along the object edge, through member expressions
\* only, ends
RECURSIVE RootOf(_)
RootOf(n) == IF IsMember(n) THEN RootOf(n.object) ELSE n

ABC == Member("MemberExpression", Member("MemberExpression", Id, Id), Id)

CallThenB == Member("MemberExpression", Call("CallExpression", Id, <<>>), Id)

(***************************************************************************)
(* C6: isMemberExpressionChain(node) is true if and only if node is a      *)
(* member/optional-member expression and the walk along the object edge    *)
(* through member/optional-member nodes ends at a plain Identifier; so     *)
(* `a.b.c` is a member chain and `a().b` is not.                           *)
(***************************************************************************)
C6_MemberChainIffIdentifierRoot ==
    Returned("isMemberExpressionChain") =>
        /\ ret = TRUE <=> (IsMember(arg.node) /\ RootOf(arg.node).type = "Identifier")
        /\ arg.node = ABC => ret = TRUE
        /\ arg.node = CallThenB => ret = FALSE

\* a().b was walked to its root, a call
C6_Witness ==
    /\ Returned("isMemberExpressionChain")
    /\ arg.node = CallThenB
    /\ ret = FALSE

\* a chain the claim calls simple: its properties are identifiers or literal keys,
\* its root is an identifier or `this`, and no node along it carries a comment
RECURSIVE RefSimpleChain(_)
RefSimpleChain(e) ==
    /\ ~Has(e, "comments")
    /\ IF IsMember(e)
       THEN /\ e.property.type \in {"Identifier", "Literal", "StringLiteral",
                                    "NumericLiteral"}
            /\ ~Has(e.property, "comments")
            /\ RefSimpleChain(e.object)
       ELSE e.type \in {"Identifier", "ThisExpression"}

(***************************************************************************)
(* C7: isSimpleTemplateLiteral(node) is false when the template has no     *)
(* interpolated expression; otherwise it is true if and only if every      *)
(* interpolated expression is an Identifier or `this`, or a member chain   *)
(* whose properties are identifiers or literal keys and whose root is an   *)
(* Identifier or `this`, and no comment is attached to any node visited    *)
(* (the expression, every object of the chain, every property).            *)
(***************************************************************************)
C7_SimpleTemplateIffNoComments ==
    Returned("isSimpleTemplateLiteral") =>
        (ret = TRUE <=>
            /\ Len(arg.node.expressions) > 0
            /\ \A k \in 1..Len(arg.node.expressions) :
                  RefSimpleChain(arg.node.expressions[k]))

\* the chains of RefSimpleChain, were comments on properties allowed
RECURSIVE RefSimpleChainButProperties(_)
RefSimpleChainButProperties(e) ==
    /\ ~Has(e, "comments")
    /\ IF IsMember(e)
       THEN /\ e.property.type \in {"Identifier", "Literal", "StringLiteral",
                                    "NumericLiteral"}
            /\ RefSimpleChainButProperties(e.object)
       ELSE e.type \in {"Identifier", "ThisExpression"}

\* the code agrees with C7 in everything but the comments of properties, which it
\* never looks at
C7_ExceptPropertyComments ==
    Returned("isSimpleTemplateLiteral") =>
        (ret = TRUE <=>
            /\ Len(arg.node.expressions) > 0
            /\ \A k \in 1..Len(arg.node.expressions) :
                  RefSimpleChainButProperties(arg.node.expressions[k]))

(***************************************************************************)
(* isLiteralLikeValue, utils.js 157-173.  The name of an identifier is the *)
(* sequence of its characters here.                                        *)
(***************************************************************************)
MaxNameLen == 2       \* characters of an identifier's name
MaxNest == 3          \* nesting height of the array and object expressions

UpperCaseLetters ==
    {"A", "B", "C", "D", "E", "F", "G", "H", "I", "J", "K", "L", "M", "N", "O",
     "P", "Q", "R", "S", "T", "U", "V", "W", "X", "Y", "Z"}

\* line 160: /^[A-Z_]+$/.test(name)
isScreamingSnakeCase(name) ==
    /\ Len(name) >= 1
    /\ \A k \in 1..Len(name) : name[k] \in UpperCaseLetters \cup {"_"}

\* Mutant: the `computed` flag of a property is not looked at.
RECURSIVE isLiteralLikeValue_IgnoreComputed(_)
isLiteralLikeValue_IgnoreComputed(node) ==
    \/ isLiteral(node)
    \/ node.type = "Identifier" /\ isScreamingSnakeCase(node.name)
    \/ /\ node.type = "ArrayExpression"
       /\ \A k \in 1..Len(node.elements) :
             /\ ~IsNull(node.elements[k])
             /\ isLiteralLikeValue_IgnoreComputed(node.elements[k])
    \/ /\ node.type = "ObjectExpression"
       /\ \A k \in 1..Len(node.properties) :
             /\ Has(node.properties[k], "value")
             /\ isLiteralLikeValue_IgnoreComputed(node.properties[k].value)

\* lines 157-173
RECURSIVE isLiteralLikeValue(_)
isLiteralLikeValue(node) ==
    \/ isLiteral(node)
    \/ node.type = "Identifier" /\ isScreamingSnakeCase(node.name)
    \/ /\ node.type = "ArrayExpression"
       /\ \A k \in 1..Len(node.elements) :
             /\ ~IsNull(node.elements[k])
             /\ isLiteralLikeValue(node.elements[k])
    \/ /\ node.type = "ObjectExpression"
       /\ \A k \in 1..Len(node.properties) :
             /\ ~Flag(node.properties[k], "computed")
             /\ Has(node.properties[k], "value")
             /\ isLiteralLikeValue(node.properties[k].value)

(***************************************************************************)
(* Inputs of isLiteralLikeValue.                                           *)
(***************************************************************************)
NameChars == {"A", "Z", "_", "a", "1"}

RECURSIVE NamesOfLen(_)
NamesOfLen(n) ==
    IF n = 0 THEN {<<>>}
    ELSE {Append(w, c) : w \in NamesOfLen(n - 1), c \in NameChars}

Names(n) == UNION {NamesOfLen(k) : k \in 1..n}

Num == Leaf("NumericLiteral")

LiteralLikeLeaves(n) ==
    {Leaf(t) : t \in {"BooleanLiteral", "DirectiveLiteral", "Literal", "NullLiteral",
                      "NumericLiteral", "BigIntLiteral", "RegExpLiteral",
                      "StringLiteral", "TSTypeLiteral", "JSXText", "ThisExpression",
                      "CallExpression"}}
    \cup {TemplateLiteral(<<>>)}
    \cup {Identifier(nm) : nm \in Names(n)}

NestLeaves == {Num, Identifier(<<"A", "_">>), Identifier(<<"a">>), Leaf("CallExpression")}

\* the array and object expressions with the part x
Nest(x) ==
    { ArrayExpression(<<x>>),
      ArrayExpression(<<Num, x>>),
      ObjectExpression(<<Property(FALSE, FALSE, x)>>),
      ObjectExpression(<<Property(TRUE, FALSE, x)>>),
      ObjectExpression(<<Property(FALSE, FALSE, x), Property(FALSE, FALSE, Num)>>) }

RECURSIVE Nested(_)
Nested(h) ==
    IF h = 0 THEN NestLeaves
    ELSE LET sub == Nested(h - 1)
         IN  NestLeaves \cup UNION {Nest(x) : x \in sub}

\* expressions with no part, with a hole, with a member that has no value
OddLiteralLike ==
    { ArrayExpression(<<>>), ObjectExpression(<<>>),
      ArrayExpression(<<JsNull>>), ArrayExpression(<<Num, JsNull>>),
      ObjectExpression(<<SpreadElement(Num)>>),
      ObjectExpression(<<Property(FALSE, FALSE, Num), SpreadElement(Num)>>) }

LiteralLikeArgs(h) == LiteralLikeLeaves(MaxNameLen) \cup Nested(h) \cup OddLiteralLike

InitLiteralLike ==
    /\ fn = "isLiteralLikeValue"
    /\ arg \in [node : LiteralLikeArgs(MaxNest)]
    /\ pc = "call"
    /\ Idle

CallIsLiteralLikeValue ==
    /\ pc = "call"
    /\ fn = "isLiteralLikeValue"
    /\ ret' = isLiteralLikeValue(arg.node)
    /\ pc' = "done"
    /\ UNCHANGED <<fn, arg, i, curlyState, newlineFound, leftMost, visited>>

NextLiteralLike == CallIsLiteralLikeValue

SpecLiteralLike == InitLiteralLike /\ [][NextLiteralLike]_vars

RefLiteralKinds ==
    {"BooleanLiteral", "DirectiveLiteral", "Literal", "NullLiteral", "NumericLiteral",
     "BigIntLiteral", "RegExpLiteral", "StringLiteral", "TemplateLiteral",
     "TSTypeLiteral", "JSXText"}

\* literal-like as the claim defines it; a hole of an array and a member without a
\* value are no literal-like values
RECURSIVE RefLiteralLike(_)
RefLiteralLike(n) ==
    IF IsNull(n) THEN FALSE
    ELSE CASE n.type \in RefLiteralKinds -> TRUE
           [] n.type = "Identifier" ->
                  /\ n.name # <<>>
                  /\ {n.name[k] : k \in 1..Len(n.name)} \subseteq UpperCaseLetters \cup {"_"}
           [] n.type = "ArrayExpression" ->
                  \A k \in 1..Len(n.elements) : RefLiteralLike(n.elements[k])
           [] n.type = "ObjectExpression" ->
                  /\ ~\E k \in 1..Len(n.properties) : Flag(n.properties[k], "computed")
                  /\ \A k \in 1..Len(n.properties) :
                        /\ Has(n.properties[k], "value")
                        /\ RefLiteralLike(n.properties[k].value)
           [] OTHER -> FALSE

\* an object with a computed key occurs in n, at any depth below array elements and
\* property values
RECURSIVE HasComputedKeyObject(_)
HasComputedKeyObject(n) ==
    IF IsNull(n) THEN FALSE
    ELSE CASE n.type = "ArrayExpression" ->
                  \E k \in 1..Len(n.elements) : HasComputedKeyObject(n.elements[k])
           [] n.type = "ObjectExpression" ->
                  \E k \in 1..Len(n.properties) :
                      \/ Flag(n.properties[k], "computed")
                      \/ /\ Has(n.properties[k], "value")
                         /\ HasComputedKeyObject(n.properties[k].value)
           [] OTHER -> FALSE

(***************************************************************************)
(* C8: isLiteralLikeValue(node) is true if and only if node is a literal   *)
(* kind, or an identifier whose name is screaming-snake-case, or an array  *)
(* expression whose every element is literal-like, or an object expression *)
(* whose every property is non-computed with a literal-like value.  So an  *)
(* array of literal-like elements is literal-like, and an object with a    *)
(* computed key anywhere inside makes the whole expression not             *)
(* literal-like.                                                           *)
(***************************************************************************)
C8_LiteralLikeMatchesDefinition ==
    Returned("isLiteralLikeValue") =>
        /\ ret = RefLiteralLike(arg.node)
        /\ (/\ arg.node.type = "ArrayExpression"
            /\ \A k \in 1..Len(arg.node.elements) :
                  /\ ~IsNull(arg.node.elements[k])
                  /\ isLiteralLikeValue(arg.node.elements[k]))
              => ret = TRUE
        /\ HasComputedKeyObject(arg.node) => ret = FALSE

\* [1, [{ [k]: 1 }]]: a computed key two levels down
C8_Witness ==
    /\ Returned("isLiteralLikeValue")
    /\ arg.node = ArrayExpression(<<Num,
                      ArrayExpression(<<ObjectExpression(<<Property(TRUE, FALSE, Num)>>)>>)>>)
    /\ ret = FALSE

(***************************************************************************)
(* classChildNeedsASIProtection, utils.js 541-584.  Its result is a        *)
(* JavaScript value: "true", "false" or "undefined".                       *)
(***************************************************************************)
JsBoolean(b) == IF b THEN "true" ELSE "false"

\* the value of a boolean-valued field, undefined when the field is absent
JsField(node, f) == IF Has(node, f) THEN JsBoolean(node[f]) ELSE "undefined"

\* lines 554-557, with the test of line 553 inverted: the key of a computed member
\* is looked at
hasInOrInstanceofKey_Computed(node) ==
    /\ Flag(node, "computed")
    /\ Has(node, "key")
    /\ Has(node.key, "name")
    /\ node.key.name = "in" \/ node.key.name = "instanceof"

\* lines 553-558: a non-computed key named `in` or `instanceof`
hasInOrInstanceofKey(node) ==
    /\ ~Flag(node, "computed")
    /\ Has(node, "key")
    /\ Has(node.key, "name")
    /\ node.key.name = "in" \/ node.key.name = "instanceof"

\* lines 568-576
methodNeedsASIProtection(node) ==
    LET isAsync == IF Has(node, "value") THEN Flag(node.value, "async")
                   ELSE Flag(node, "async")
        isGenerator == IF Has(node, "value") THEN Flag(node.value, "generator")
                       ELSE Flag(node, "generator")
    IN  IF isAsync \/ (Has(node, "kind") /\ (node.kind = "get" \/ node.kind = "set"))
        THEN FALSE
        ELSE IF Flag(node, "computed") \/ isGenerator
        THEN TRUE
        ELSE FALSE

\* lines 541-584
classChildNeedsASIProtection(node) ==
    IF IsNull(node) \/ IsUndefined(node) THEN "undefined"
    ELSE IF Flag(node, "static") \/ Has(node, "accessibility") THEN "false"
    ELSE IF hasInOrInstanceofKey(node) THEN "true"
    ELSE CASE node.type \in {"ClassProperty", "TSAbstractClassProperty"} ->
                  JsField(node, "computed")
           [] node.type \in {"MethodDefinition", "TSAbstractMethodDefinition",
                             "ClassMethod", "ClassPrivateMethod"} ->
                  JsBoolean(methodNeedsASIProtection(node))
           [] node.type = "TSIndexSignature" -> "true"
           [] OTHER -> "false"

(***************************************************************************)
(* Inputs of classChildNeedsASIProtection: class members, every field      *)
(* present or absent.  The records merged into a member all carry its      *)
(* type.                                                                   *)
(***************************************************************************)
FieldTypes == {"ClassProperty", "TSAbstractClassProperty"}

MethodTypes ==
    {"MethodDefinition", "TSAbstractMethodDefinition", "ClassMethod", "ClassPrivateMethod"}

MemberTypes == FieldTypes \cup MethodTypes \cup {"TSIndexSignature", "ClassPrivateProperty"}

StaticOptions(t) == {[type |-> t], [type |-> t, static |-> TRUE], [type |-> t, static |-> FALSE]}

AccessibilityOptions(t) == {[type |-> t], [type |-> t, accessibility |-> "private"]}

ComputedOptions(t) ==
    {[type |-> t], [type |-> t, computed |-> TRUE], [type |-> t, computed |-> FALSE]}

KeyOptions(t) ==
    {[type |-> t]}
    \cup {[type |-> t, key |-> Identifier(nm)] : nm \in {"in", "instanceof", "foo"}}
    \cup {[type |-> t, key |-> Leaf("StringLiteral")]}

\* kind, async and generator of a method: on the member (Babel) or on its value (ESTree)
MethodOptions(t) ==
    IF t \in MethodTypes
    THEN {[type |-> t, kind |-> k, async |-> a, generator |-> g] :
             k \in {"method", "get", "set"}, a \in BOOLEAN, g \in BOOLEAN}
         \cup {[type |-> t, kind |-> k,
                value |-> [type |-> "FunctionExpression", async |-> a, generator |-> g]] :
             k \in {"method", "get", "set"}, a \in BOOLEAN, g \in BOOLEAN}
    ELSE {[type |-> t]}

ClassMembersOf(types) ==
    UNION {{s @@ a @@ c @@ k @@ m :
               s \in StaticOptions(t), a \in AccessibilityOptions(t),
               c \in ComputedOptions(t), k \in KeyOptions(t), m \in MethodOptions(t)} :
           t \in types}

InitASI ==
    /\ fn = "classChildNeedsASIProtection"
    /\ arg \in [node : ClassMembersOf(MemberTypes) \cup {JsNull, JsUndefined}]
    /\ pc = "call"
    /\ Idle

CallClassChildNeedsASIProtection ==
    /\ pc = "call"
    /\ fn = "classChildNeedsASIProtection"
    /\ ret' = classChildNeedsASIProtection(arg.node)
    /\ pc' = "done"
    /\ UNCHANGED <<fn, arg, i, curlyState, newlineFound, leftMost, visited>>

NextASI == CallClassChildNeedsASIProtection

SpecASI == InitASI /\ [][NextASI]_vars

\* a class member was classified
ClassifiedMember ==
    /\ Returned("classChildNeedsASIProtection")
    /\ ~IsNull(arg.node)
    /\ ~IsUndefined(arg.node)

IsQualified(m) == Flag(m, "static") \/ Has(m, "accessibility")

KeyIsInOrInstanceof(m) ==
    /\ Has(m, "key")
    /\ Has(m.key, "name")
    /\ m.key.name \in {"in", "instanceof"}

IsComputedField(m) == m.type \in FieldTypes /\ Flag(m, "computed")

MethodIsAsync(m) == Flag(m, "async") \/ (Has(m, "value") /\ Flag(m.value, "async"))

MethodIsGenerator(m) ==
    Flag(m, "generator") \/ (Has(m, "value") /\ Flag(m.value, "generator"))

IsHazardousMethod(m) ==
    /\ m.type \in MethodTypes
    /\ ~MethodIsAsync(m)
    /\ m.kind \notin {"get", "set"}
    /\ Flag(m, "computed") \/ MethodIsGenerator(m)

(***************************************************************************)
(* C9 as claimed: a class member that is neither static nor                *)
(* accessibility-qualified is flagged exactly when it has a computed key   *)
(* named "in" or "instanceof", or is a field with a computed key, or is a  *)
(* method that is not async, not a getter and not a setter and is computed *)
(* or a generator; an index-signature member is always flagged; every      *)
(* other member is not flagged.                                            *)
(***************************************************************************)
C9_FlaggedAsClaimed ==
    ClassifiedMember =>
        (ret = "true" <=>
            \/ arg.node.type = "TSIndexSignature"
            \/ /\ ~IsQualified(arg.node)
               /\ \/ Flag(arg.node, "computed") /\ KeyIsInOrInstanceof(arg.node)
                  \/ IsComputedField(arg.node)
                  \/ IsHazardousMethod(arg.node))

(***************************************************************************)
(* C9 as amended: a class member that is neither static nor                *)
(* accessibility-qualified is flagged exactly when it has a non-computed   *)
(* key named "in" or "instanceof", or is a field with a computed key, or   *)
(* is a method that is not async, not a getter and not a setter and is     *)
(* computed or a generator, or is an index-signature member; every other   *)
(* member, a static or accessibility-qualified index signature included,   *)
(* is not flagged.                                                         *)
(***************************************************************************)
C9_FlaggedAmended ==
    ClassifiedMember =>
        (ret = "true" <=>
            /\ ~IsQualified(arg.node)
            /\ \/ ~Flag(arg.node, "computed") /\ KeyIsInOrInstanceof(arg.node)
               \/ IsComputedField(arg.node)
               \/ IsHazardousMethod(arg.node)
               \/ arg.node.type = "TSIndexSignature")

\* the field `in`, not computed, is flagged
C9_Witness ==
    /\ Returned("classChildNeedsASIProtection")
    /\ arg.node = [type |-> "ClassProperty", computed |-> FALSE, key |-> Identifier("in")]
    /\ ret = "true"

(***************************************************************************)
(* The left-side resolvers, utils.js 78-119.  A field of a node is absent  *)
(* (undefined), null, or a node; `expressions` is a list.  The outcome of  *)
(* a call is a returned value or a thrown error.                           *)
(***************************************************************************)
Returns(v) == [kind |-> "return", value |-> v]

Throws(message) == [kind |-> "throw", message |-> message]

\* `node.f` is truthy, for a field f that holds a node, null or a boolean (a list,
\* when present, is truthy)
Truthy(node, f) ==
    /\ Has(node, f)
    /\ ~IsNull(node[f])
    /\ ~(Has(node[f], "bool") /\ ~node[f].bool)

\* the value of `node.f`
Get(node, f) == IF Has(node, f) THEN node[f] ELSE JsUndefined

\* lines 82-90: a || b || ... over the fields fs, the last operand when none is truthy
RECURSIVE firstTruthy(_, _)
firstTruthy(node, fs) ==
    IF Len(fs) = 1 \/ Truthy(node, Head(fs))
    THEN Get(node, Head(fs))
    ELSE firstTruthy(node, Tail(fs))

\* Mutant: a node without a left side is its own left side.
getLeftSide_OrSelf(node) ==
    IF Has(node, "expressions")
    THEN IF Len(node.expressions) >= 1 THEN node.expressions[1] ELSE JsUndefined
    ELSE IF \A f \in {"left", "test", "callee", "object", "tag", "argument",
                      "expression"} : ~Truthy(node, f)
    THEN node
    ELSE firstTruthy(node, <<"left", "test", "callee", "object", "tag", "argument",
                             "expression">>)

\* lines 78-91
getLeftSide(node) ==
    IF Has(node, "expressions")
    THEN IF Len(node.expressions) >= 1 THEN node.expressions[1] ELSE JsUndefined
    ELSE firstTruthy(node, <<"left", "test", "callee", "object", "tag", "argument",
                             "expression">>)

\* lines 93-119; the array index 0 of line 95 is the first element of the list
getLeftSidePathName(path, node) ==
    IF Has(node, "expressions") THEN Returns(<<"expressions", 0>>)
    ELSE IF Truthy(node, "left") THEN Returns(<<"left">>)
    ELSE IF Truthy(node, "test") THEN Returns(<<"test">>)
    ELSE IF Truthy(node, "object") THEN Returns(<<"object">>)
    ELSE IF Truthy(node, "callee") THEN Returns(<<"callee">>)
    ELSE IF Truthy(node, "tag") THEN Returns(<<"tag">>)
    ELSE IF Truthy(node, "argument") THEN Returns(<<"argument">>)
    ELSE IF Truthy(node, "expression") THEN Returns(<<"expression">>)
    ELSE Throws("Unexpected node has no left side")

(***************************************************************************)
(* Inputs of the left-side resolvers: a node with any of the fields the    *)
(* resolvers read, each child named after its field.  A bind expression    *)
(* `a::b` is the node with an object and a callee.                         *)
(***************************************************************************)
LeftSideTypes == {"BindExpression", "Identifier"}

\* a field that holds a node when present
FieldOptions(t, f) == {[type |-> t], [type |-> t] @@ (f :> Identifier(f))}

\* a field that may also be null (the object of `::f`, the argument of `yield`)
NullableFieldOptions(t, f) == FieldOptions(t, f) \cup {[type |-> t] @@ (f :> JsNull)}

ExpressionsOptions(t) ==
    {[type |-> t],
     [type |-> t, expressions |-> <<>>],
     [type |-> t, expressions |-> <<Identifier("first")>>],
     [type |-> t, expressions |-> <<Identifier("first"), Identifier("second")>>]}

LeftSideNodesOf(types) ==
    UNION {{x @@ l @@ s @@ c @@ o @@ g @@ a @@ e :
               x \in ExpressionsOptions(t), l \in FieldOptions(t, "left"),
               s \in FieldOptions(t, "test"), c \in NullableFieldOptions(t, "callee"),
               o \in NullableFieldOptions(t, "object"), g \in FieldOptions(t, "tag"),
               a \in NullableFieldOptions(t, "argument"),
               e \in FieldOptions(t, "expression")} :
           t \in types}

\* the AST path of the node, which getLeftSidePathName does not read
RootPath == <<>>

InitLeft ==
    /\ fn \in {"getLeftSide", "getLeftSidePathName"}
    /\ arg \in [path : {RootPath}, node : LeftSideNodesOf(LeftSideTypes)]
    /\ pc = "call"
    /\ Idle

CallGetLeftSide ==
    /\ pc = "call"
    /\ fn = "getLeftSide"
    /\ ret' = Returns(getLeftSide(arg.node))
    /\ pc' = "done"
    /\ UNCHANGED <<fn, arg, i, curlyState, newlineFound, leftMost, visited>>

CallGetLeftSidePathName ==
    /\ pc = "call"
    /\ fn = "getLeftSidePathName"
    /\ ret' = getLeftSidePathName(arg.path, arg.node)
    /\ pc' = "done"
    /\ UNCHANGED <<fn, arg, i, curlyState, newlineFound, leftMost, visited>>

NextLeft == CallGetLeftSide \/ CallGetLeftSidePathName

SpecLeft == InitLeft /\ [][NextLeft]_vars

\* the child of a node reached by a path of one name, or of a name and an index
FollowPath(node, names) ==
    IF Len(names) = 2
    THEN IF Len(node[names[1]]) > names[2] THEN node[names[1]][names[2] + 1]
         ELSE JsUndefined
    ELSE node[names[1]]

(***************************************************************************)
(* C10: for every node on which getLeftSidePathName returns a path,        *)
(* including nodes that carry both an `object` and a `callee` field, the   *)
(* child reached by following that path from the node is the node that     *)
(* getLeftSide returns.                                                    *)
(***************************************************************************)
C10_PathLeadsToLeftSide ==
    (Returned("getLeftSidePathName") /\ ret.kind = "return")
        => FollowPath(arg.node, ret.value) = getLeftSide(arg.node)

\* the two resolvers agree on every node that does not carry both fields
C10_AgreeUnlessObjectAndCallee ==
    (/\ Returned("getLeftSidePathName")
     /\ ret.kind = "return"
     /\ ~(Truthy(arg.node, "object") /\ Truthy(arg.node, "callee")))
        => FollowPath(arg.node, ret.value) = getLeftSide(arg.node)

(***************************************************************************)
(* hasNakedLeftSide, utils.js 58-76.                                       *)
(***************************************************************************)
hasNakedLeftSide(node) ==
    \/ node.type = "AssignmentExpression"
    \/ node.type = "BinaryExpression"
    \/ node.type = "LogicalExpression"
    \/ node.type = "NGPipeExpression"
    \/ node.type = "ConditionalExpression"
    \/ node.type = "CallExpression"
    \/ node.type = "OptionalCallExpression"
    \/ node.type = "MemberExpression"
    \/ node.type = "OptionalMemberExpression"
    \/ node.type = "SequenceExpression"
    \/ node.type = "TaggedTemplateExpression"
    \/ node.type = "BindExpression"
    \/ node.type = "UpdateExpression" /\ ~Flag(node, "prefix")
    \/ node.type = "TSAsExpression"
    \/ node.type = "TSNonNullExpression"

\* the fields the resolvers look at, after `expressions`
LeftSideFields == {"left", "test", "callee", "object", "tag", "argument", "expression"}

\* none of the recognized fields holds anything
NoRecognizedField(node) ==
    /\ ~Has(node, "expressions")
    /\ \A f \in LeftSideFields : ~Truthy(node, f)

ReturnedResolver == Returned("getLeftSide") \/ Returned("getLeftSidePathName")

(***************************************************************************)
(* C11: resolving the left-side child of a node for which hasNakedLeftSide *)
(* holds and on which none of the recognized fields is present ends in an  *)
(* error, never in a returned value, for every resolver (getLeftSide and   *)
(* getLeftSidePathName); when a recognized field is present no error is    *)
(* raised.                                                                 *)
(***************************************************************************)
C11_EveryResolverThrows ==
    (ReturnedResolver /\ hasNakedLeftSide(arg.node)) =>
        (ret.kind = "throw" <=> NoRecognizedField(arg.node))

\* the part of C11 that getLeftSidePathName satisfies, and that no resolver raises
\* an error on a node that has a recognized field
C11_PathNameThrowsIffNoField ==
    /\ (Returned("getLeftSidePathName") /\ hasNakedLeftSide(arg.node)) =>
          (ret.kind = "throw" <=> NoRecognizedField(arg.node))
    /\ (ReturnedResolver /\ ~NoRecognizedField(arg.node)) => ret.kind = "return"

(***************************************************************************)
(* The predicates of utils.js 316-322, 403-422, 521-539, 672-682 and       *)
(* 784-794, with the JavaScript value each returns: `a && b` is a when a   *)
(* is falsy, a function that ends without `return` gives undefined, and a  *)
(* method call on undefined throws a TypeError.                            *)
(***************************************************************************)
MaxComments == 2      \* comments attached to a node

\* a boolean value
Bool(b) == [bool |-> b]

\* `typeof v`
TypeOf(v) ==
    IF Has(v, "undefined") THEN "undefined"
    ELSE IF Has(v, "bool") THEN "boolean"
    ELSE "object"

\* a comment: its placement flags and whether it is a block comment
Comment(placement, block) ==
    [leading |-> placement = "leading", trailing |-> placement = "trailing",
     block |-> block]

\* Array.prototype.some over node.comments, for the three placements
someLeading(comments) == \E k \in 1..Len(comments) : comments[k].leading

someTrailing(comments) == \E k \in 1..Len(comments) : comments[k].trailing

isDangling(comment) == ~comment.leading /\ ~comment.trailing

someDangling(comments) == \E k \in 1..Len(comments) : isDangling(comments[k])

\* lines 403-405
hasLeadingComment(node) ==
    IF ~Has(node, "comments") THEN JsUndefined
    ELSE Bool(someLeading(node.comments))

\* lines 407-409
hasTrailingComment(node) ==
    IF ~Has(node, "comments") THEN JsUndefined
    ELSE Bool(someTrailing(node.comments))

\* lines 417-422
hasDanglingComments(node) ==
    IF ~Has(node, "comments") THEN JsUndefined
    ELSE Bool(someDangling(node.comments))

\* getLast of common/util: the last element, undefined for an empty list
getLast(arr) == IF Len(arr) = 0 THEN JsUndefined ELSE arr[Len(arr)]

\* isBlockComment of language-js/comments
isBlockComment(comment) == comment.block

\* lines 784-794
needsHardlineAfterDanglingComment(node) ==
    IF ~Has(node, "comments") THEN Bool(FALSE)
    ELSE LET lastDanglingComment ==
                 getLast(SelectSeq(node.comments, isDangling))
         IN  IF IsUndefined(lastDanglingComment) THEN JsUndefined
             ELSE Bool(~isBlockComment(lastDanglingComment))

\* lines 521-539, on the node of the path
classPropMayCauseASIProblems(path) ==
    LET node == path.node
    IN  IF node.type # "ClassProperty" THEN Bool(FALSE)
        ELSE IF /\ Has(node, "key")
                /\ Has(node.key, "name")
                /\ node.key.name \in {"static", "get", "set"}
                /\ ~Truthy(node, "value")
                /\ ~Truthy(node, "typeAnnotation")
        THEN Bool(TRUE)
        ELSE JsUndefined

\* the value classChildNeedsASIProtection returns
classChildNeedsASIProtectionValue(node) ==
    LET r == classChildNeedsASIProtection(node)
    IN  IF r = "undefined" THEN JsUndefined ELSE Bool(r = "true")

\* lines 316-322
isMemberish(node) ==
    IF node.type = "MemberExpression" \/ node.type = "OptionalMemberExpression"
    THEN Bool(TRUE)
    ELSE IF node.type = "BindExpression"
    THEN Get(node, "object")
    ELSE Bool(FALSE)

\* a JavaScript array
Array(items) == [items |-> items]

IsArray(v) == Has(v, "items")

isNotEmptyStatement(stmt) == stmt.type # "EmptyStatement"

\* lines 672-682
isLastStatement(path) ==
    IF IsNull(path.parent) THEN Returns(Bool(TRUE))
    ELSE LET parent == path.parent
             list == IF Truthy(parent, "body") THEN parent.body
                     ELSE Get(parent, "consequent")
         IN  IF ~IsArray(list)
             THEN Throws("TypeError")
             ELSE LET body == SelectSeq(list.items, isNotEmptyStatement)
                  IN  Returns(Bool(Len(body) > 0 /\ body[Len(body)] = path.node))

(***************************************************************************)
(* Inputs of the predicates.                                               *)
(***************************************************************************)
CommentKinds ==
    {Comment(p, b) : p \in {"leading", "trailing", "dangling"}, b \in BOOLEAN}

\* the comment lists of n comments at most
RECURSIVE CommentLists(_)
CommentLists(n) ==
    IF n = 0 THEN {<<>>}
    ELSE LET shorter == CommentLists(n - 1)
         IN  shorter \cup {Append(cs, c) : cs \in {l \in shorter : Len(l) = n - 1},
                                            c \in CommentKinds}

\* nodes without a comment list and with one of n comments at most
CommentedNodes(n) ==
    {Id, Leaf("BlockStatement")}
    \cup {[type |-> t, comments |-> cs] :
            t \in {"Identifier", "BlockStatement"}, cs \in CommentLists(n)}

\* class properties with and without key, value and type annotation, and members
\* of other kinds
ClassPropertyNodes ==
    UNION {{[type |-> "ClassProperty"] @@ k @@ v @@ t :
               k \in {[type |-> "ClassProperty"],
                      [type |-> "ClassProperty", key |-> Leaf("StringLiteral")]}
                     \cup {[type |-> "ClassProperty", key |-> Identifier(nm)] :
                             nm \in {"static", "get", "set", "foo"}},
               v \in {[type |-> "ClassProperty"],
                      [type |-> "ClassProperty", value |-> JsNull],
                      [type |-> "ClassProperty", value |-> Id]},
               t \in {[type |-> "ClassProperty"],
                      [type |-> "ClassProperty", typeAnnotation |-> Leaf("TypeAnnotation")]}}}
    \cup {[type |-> "ClassMethod", key |-> Identifier("static")], Id}

MemberishNodes ==
    {Member("MemberExpression", Id, Id),
     Member("OptionalMemberExpression", Id, Id),
     [type |-> "BindExpression", object |-> Id, callee |-> Id],
     [type |-> "BindExpression", object |-> JsNull, callee |-> Id],
     [type |-> "BindExpression", callee |-> Id],
     Id, Call("CallExpression", Id, <<>>)}

\* statements, told apart by their position in the source
Statement(t, k) == [type |-> t, start |-> k]

Statements == {Statement(t, k) : t \in {"ExpressionStatement", "EmptyStatement"},
                                 k \in 1..2}

StatementLists ==
    {<<>>} \cup {<<s>> : s \in Statements}
           \cup {<<s, t>> : s \in Statements, t \in Statements}

\* the parents of a statement: none, a block or program with a `body` list, a
\* switch case with a `consequent` list, a statement whose `body` is a single
\* statement, and one with neither field
StatementParents ==
    {JsNull, Leaf("ExpressionStatement"),
     [type |-> "LabeledStatement", body |-> Statement("ExpressionStatement", 1)],
     [type |-> "IfStatement", consequent |-> Statement("ExpressionStatement", 1)],
     [type |-> "TSDeclareFunction", body |-> JsNull]}
    \cup {[type |-> "BlockStatement", body |-> Array(l)] : l \in StatementLists}
    \cup {[type |-> "SwitchCase", consequent |-> Array(l)] : l \in StatementLists}

StatementPaths == [node : Statements, parent : StatementParents]

CommentPredicates ==
    {"hasLeadingComment", "hasTrailingComment", "hasDanglingComments",
     "needsHardlineAfterDanglingComment"}

InitTotal ==
    /\ \/ /\ fn \in CommentPredicates
          /\ arg \in [node : CommentedNodes(MaxComments)]
       \/ /\ fn = "classPropMayCauseASIProblems"
          /\ arg \in [node : ClassPropertyNodes]
       \/ /\ fn = "classChildNeedsASIProtection"
          /\ arg \in [node : ClassMembersOf({"ClassProperty", "ClassMethod", "TSIndexSignature"})]
       \/ /\ fn = "isMemberish"
          /\ arg \in [node : MemberishNodes]
       \/ /\ fn = "isLastStatement"
          /\ arg \in StatementPaths
    /\ pc = "call"
    /\ Idle

\* the call of fn returns (or throws) `outcome`
Finish(f, outcome) ==
    /\ pc = "call"
    /\ fn = f
    /\ ret' = outcome
    /\ pc' = "done"
    /\ UNCHANGED <<fn, arg, i, curlyState, newlineFound, leftMost, visited>>

CallHasLeadingComment ==
    Finish("hasLeadingComment", Returns(hasLeadingComment(arg.node)))

CallHasTrailingComment ==
    Finish("hasTrailingComment", Returns(hasTrailingComment(arg.node)))

CallHasDanglingComments ==
    Finish("hasDanglingComments", Returns(hasDanglingComments(arg.node)))

CallNeedsHardlineAfterDanglingComment ==
    Finish("needsHardlineAfterDanglingComment",
           Returns(needsHardlineAfterDanglingComment(arg.node)))

CallClassPropMayCauseASIProblems ==
    Finish("classPropMayCauseASIProblems", Returns(classPropMayCauseASIProblems(arg)))

CallClassChildNeedsASIProtectionValue ==
    Finish("classChildNeedsASIProtection",
           Returns(classChildNeedsASIProtectionValue(arg.node)))

CallIsMemberish == Finish("isMemberish", Returns(isMemberish(arg.node)))

CallIsLastStatement == Finish("isLastStatement", isLastStatement(arg))

NextTotal ==
    \/ CallHasLeadingComment
    \/ CallHasTrailingComment
    \/ CallHasDanglingComments
    \/ CallNeedsHardlineAfterDanglingComment
    \/ CallClassPropMayCauseASIProblems
    \/ CallClassChildNeedsASIProtectionValue
    \/ CallIsMemberish
    \/ CallIsLastStatement

SpecTotal == InitTotal /\ [][NextTotal]_vars

(***************************************************************************)
(* C12: each of hasLeadingComment, hasTrailingComment, hasDanglingComments,*)
(* needsHardlineAfterDanglingComment, classPropMayCauseASIProblems,        *)
(* classChildNeedsASIProtection, isMemberish and isLastStatement returns a *)
(* definite boolean (true or false, never undefined or another value) and  *)
(* never raises, also for a node without a comment list, a node outside    *)
(* the predicate's kinds and a path whose parent has neither a `body` nor  *)
(* a `consequent` list.                                                    *)
(***************************************************************************)
C12_DefiniteBoolean ==
    pc = "done" => (ret.kind = "return" /\ TypeOf(ret.value) = "boolean")

\* the parent of the path has a list of statements in `body`, or else in `consequent`
ParentHasStatementList ==
    \/ Truthy(arg.parent, "body") /\ IsArray(arg.parent.body)
    \/ ~Truthy(arg.parent, "body") /\ Truthy(arg.parent, "consequent")
          /\ IsArray(arg.parent.consequent)

\* what holds of the eight predicates: only isLastStatement raises, and only on a
\* parent without a statement list; undefined comes with no comment list, no
\* dangling comment, an unflagged class property or a class member without a
\* `computed` field; isMemberish gives the object of a bind expression
C12_WhereNotBoolean ==
    pc = "done" =>
        /\ ret.kind = "throw" <=>
              (fn = "isLastStatement" /\ ~IsNull(arg.parent) /\ ~ParentHasStatementList)
        /\ (ret.kind = "return" /\ fn \in CommentPredicates \ {"needsHardlineAfterDanglingComment"})
              => (TypeOf(ret.value) = "boolean" <=> Has(arg.node, "comments"))
        /\ (ret.kind = "return" /\ fn = "needsHardlineAfterDanglingComment")
              => (TypeOf(ret.value) = "boolean" <=>
                    (Has(arg.node, "comments") => someDangling(arg.node.comments)))
        /\ (ret.kind = "return" /\ fn = "classPropMayCauseASIProblems")
              => (TypeOf(ret.value) = "boolean" <=>
                    (arg.node.type = "ClassProperty" => ret.value = Bool(TRUE)))
        /\ (ret.kind = "return" /\ fn = "classChildNeedsASIProtection")
              => (TypeOf(ret.value) = "boolean" <=>
                    ~(/\ arg.node.type \in FieldTypes
                      /\ ~Has(arg.node, "computed")
                      /\ ~Flag(arg.node, "static")
                      /\ ~Has(arg.node, "accessibility")
                      /\ ~hasInOrInstanceofKey(arg.node)))
        /\ (ret.kind = "return" /\ fn = "isMemberish")
              => (TypeOf(ret.value) = "boolean" <=> arg.node.type # "BindExpression")
        /\ (ret.kind = "return" /\ fn = "isLastStatement")
              => TypeOf(ret.value) = "boolean"

(***************************************************************************)
(* returnArgumentHasLeadingComment, utils.js 692-726: the loop that walks  *)
(* to the leftmost leaf of the argument of a `return`, one iteration per   *)
(* step.                                                                   *)
(***************************************************************************)
MaxLeftDepth == 2     \* nesting height of the argument trees

\* the loop is cut off after this many values of leftMost; a tree of the bound's
\* height is left long before
MaxVisits == MaxLeftDepth + 3

\* lines 225-227
isJSXNode(node) == node.type = "JSXElement" \/ node.type = "JSXFragment"

\* hasNodeIgnoreComment of common/util: the node carries an ignore marker
hasNodeIgnoreComment(node) == Flag(node, "prettierIgnore")

\* hasNewline(text, options.locEnd(comment)) of common/util: a line break follows
\* the comment in the original text
hasNewlineAfter(comment) == comment.newlineAfter

\* lines 692-703, as a truth value
hasLeadingOwnLineComment(node) ==
    IF Has(node, "bool") THEN FALSE
    ELSE IF isJSXNode(node) THEN hasNodeIgnoreComment(node)
    ELSE /\ Has(node, "comments")
         /\ \E k \in 1..Len(node.comments) :
               node.comments[k].leading /\ hasNewlineAfter(node.comments[k])

\* a value the `while` of line 716 takes as false
Falsy(v) == IsNull(v) \/ IsUndefined(v) \/ (Has(v, "bool") /\ ~v.bool)

(***************************************************************************)
(* Inputs of returnArgumentHasLeadingComment: expression trees, the child  *)
(* x in every position the loop follows and in positions it does not.      *)
(***************************************************************************)
\* a leading comment on a line of its own, one followed by code, a trailing one
OwnLineComment == [leading |-> TRUE, trailing |-> FALSE, newlineAfter |-> TRUE]

SameLineComment == [leading |-> TRUE, trailing |-> FALSE, newlineAfter |-> FALSE]

TrailingComment == [leading |-> FALSE, trailing |-> TRUE, newlineAfter |-> TRUE]

LeftLeaves ==
    {Id, Leaf("ThisExpression"),
     [type |-> "Identifier", name |-> "a", comments |-> <<SameLineComment, TrailingComment>>],
     [type |-> "Identifier", name |-> "a", comments |-> <<TrailingComment, OwnLineComment>>],
     Leaf("JSXElement"),
     [type |-> "JSXElement", prettierIgnore |-> TRUE],
     TemplateLiteral(<<>>),
     [type |-> "ArrowFunctionExpression", expression |-> Bool(TRUE), body |-> Id],
     [type |-> "FunctionExpression", expression |-> Bool(FALSE),
      body |-> Leaf("BlockStatement")]}

LeftWrap(x) ==
    {[type |-> "BinaryExpression", left |-> x, right |-> Id],
     [type |-> "AssignmentExpression", left |-> Id, right |-> x],
     [type |-> "ConditionalExpression", test |-> x, consequent |-> Id, alternate |-> Id],
     Call("CallExpression", x, <<>>),
     Call("CallExpression", Id, <<x>>),
     Member("MemberExpression", x, Id),
     [type |-> "MemberExpression", object |-> x, property |-> Id,
      comments |-> <<OwnLineComment>>],
     [type |-> "SequenceExpression", expressions |-> <<x, Id>>],
     [type |-> "TaggedTemplateExpression", tag |-> x, quasi |-> TemplateLiteral(<<>>)],
     [type |-> "BindExpression", object |-> x, callee |-> Id],
     [type |-> "BindExpression", object |-> JsNull, callee |-> x],
     [type |-> "UpdateExpression", prefix |-> FALSE, argument |-> x],
     [type |-> "UpdateExpression", prefix |-> TRUE, argument |-> x],
     NonNull(x),
     Unary("!", x)}

\* the trees of height h at most
RECURSIVE LeftTrees(_)
LeftTrees(h) ==
    IF h = 0 THEN LeftLeaves
    ELSE LET sub == LeftTrees(h - 1)
         IN  LeftLeaves \cup UNION {LeftWrap(x) : x \in sub}

InitReturn ==
    /\ fn = "returnArgumentHasLeadingComment"
    /\ arg \in [argument : LeftTrees(MaxLeftDepth)]
    /\ pc = "call"
    /\ Idle

\* lines 709-715: the test of the argument itself and the entry into the loop
CallReturnArgumentHasLeadingComment ==
    /\ pc = "call"
    /\ fn = "returnArgumentHasLeadingComment"
    /\ IF hasLeadingOwnLineComment(arg.argument)
       THEN /\ ret' = Returns(TRUE)
            /\ pc' = "done"
            /\ UNCHANGED <<leftMost, visited>>
       ELSE IF hasNakedLeftSide(arg.argument)
       THEN /\ leftMost' = arg.argument
            /\ visited' = <<arg.argument>>
            /\ pc' = "loop"
            /\ UNCHANGED ret
       ELSE /\ ret' = Returns(FALSE)
            /\ pc' = "done"
            /\ UNCHANGED <<leftMost, visited>>
    /\ UNCHANGED <<fn, arg, i, curlyState, newlineFound>>

\* one evaluation of the condition of line 716 and, when it holds, of the body of
\* lines 717-721; line 725 when it does not
LeftMostStep ==
    /\ pc = "loop"
    /\ Len(visited) < MaxVisits
    /\ LET newLeftMost == getLeftSide(leftMost)
       IN  IF Falsy(newLeftMost)
           THEN /\ ret' = Returns(FALSE)
                /\ pc' = "done"
                /\ UNCHANGED <<leftMost, visited>>
           ELSE /\ leftMost' = newLeftMost
                /\ visited' = Append(visited, newLeftMost)
                /\ IF hasLeadingOwnLineComment(newLeftMost)
                   THEN ret' = Returns(TRUE) /\ pc' = "done"
                   ELSE UNCHANGED <<ret, pc>>
    /\ UNCHANGED <<fn, arg, i, curlyState, newlineFound>>

NextReturn == CallReturnArgumentHasLeadingComment \/ LeftMostStep

\* the call runs on one thread to its end: a step that can be taken is taken
SpecReturn == InitReturn /\ [][NextReturn]_vars /\ WF_vars(NextReturn)

\* the fields of a node that hold a node, and those that hold a list of nodes
NodeFields ==
    LeftSideFields \cup {"right", "consequent", "alternate", "property", "quasi", "body"}

ListFields == {"expressions", "arguments"}

Children(node) ==
    {node[f] : f \in {g \in NodeFields \cap DOMAIN node : Has(node[g], "type")}}
    \cup UNION {{node[f][k] : k \in 1..Len(node[f])} : f \in ListFields \cap DOMAIN node}

Largest(S) == CHOOSE m \in S : \A n \in S : n <= m

\* the height of a tree: the edges on its longest path from the root to a leaf
RECURSIVE Depth(_)
Depth(node) ==
    IF ~Has(node, "type") \/ Children(node) = {} THEN 0
    ELSE 1 + Largest({Depth(c) : c \in Children(node)})

\* the loop ran its iterations within the height of the argument and on different
\* nodes
WithinDepth ==
    (fn = "returnArgumentHasLeadingComment" /\ pc \in {"loop", "done"}) =>
        /\ Len(visited) - 1 <= Depth(arg.argument)
        /\ \A j, k \in 1..Len(visited) : j # k => visited[j] # visited[k]

(***************************************************************************)
(* C13: for every finite expression tree whose root has a naked left side, *)
(* the loop of returnArgumentHasLeadingComment (leftMost becomes           *)
(* getLeftSide(leftMost) until none remains) terminates after at most      *)
(* depth(tree) iterations and never visits the same node twice.            *)
(***************************************************************************)
C13_LoopTerminates == []WithinDepth /\ <>(pc = "done")

\* the loop went down two levels and ended at a leaf without a left side
C13_Witness ==
    /\ fn = "returnArgumentHasLeadingComment"
    /\ pc = "done"
    /\ hasNakedLeftSide(arg.argument)
    /\ Len(visited) = 3
    /\ ret = Returns(FALSE)

(***************************************************************************)
(* hasJsxIgnoreComment, utils.js 608-652 and 1016-1018.  A text is the     *)
(* sequence of its characters.                                             *)
(***************************************************************************)
MaxSiblings == 2      \* children of the parent before the node

\* line 608
jsxWhitespaceChars == {" ", "\n", "\r", "\t"}

\* lines 1016-1018
rawText(node) == IF Has(node, "extra") THEN node.extra.raw ELSE node.raw

\* lines 610-612: containsNonJsxWhitespaceRegex.test(text)
containsNonJsxWhitespace(text) ==
    \E k \in 1..Len(text) : text[k] \notin jsxWhitespaceChars

\* /\n/.test(text)
containsNewline(text) == \E k \in 1..Len(text) : text[k] = "\n"

\* Mutant: a text is meaningful only when it holds a character that is no
\* whitespace.
isMeaningfulJSXText_NonWhitespace(node) ==
    isLiteral(node) /\ containsNonJsxWhitespace(rawText(node))

\* lines 616-622
isMeaningfulJSXText(node) ==
    /\ isLiteral(node)
    /\ \/ containsNonJsxWhitespace(rawText(node))
       \/ ~containsNewline(rawText(node))

\* String.prototype.trim, the white space being that of jsxWhitespaceChars
RECURSIVE trim(_)
trim(text) ==
    IF Len(text) = 0 THEN text
    ELSE IF Head(text) \in jsxWhitespaceChars THEN trim(Tail(text))
    ELSE IF text[Len(text)] \in jsxWhitespaceChars
    THEN trim(SubSeq(text, 1, Len(text) - 1))
    ELSE text

PrettierIgnore ==
    <<"p", "r", "e", "t", "t", "i", "e", "r", "-", "i", "g", "n", "o", "r", "e">>

\* Array.prototype.indexOf: the 0-based index of the first element that is the
\* node, -1 when there is none
indexOf(children, node) ==
    IF \E k \in 1..Len(children) : children[k] = node
    THEN (CHOOSE k \in 1..Len(children) :
             children[k] = node /\ \A j \in 1..(k - 1) : children[j] # node) - 1
    ELSE -1

\* the loop of lines 633-641, entered with i: the previous sibling, null when the
\* loop runs out
RECURSIVE prevSiblingFrom(_, _)
prevSiblingFrom(children, k) ==
    IF k <= 0 THEN JsNull
    ELSE LET candidate == children[k]
         IN  IF candidate.type = "JSXText" /\ ~isMeaningfulJSXText(candidate)
             THEN prevSiblingFrom(children, k - 1)
             ELSE candidate

\* Array.prototype.find over the comments: the first one that matches, else undefined
RECURSIVE findIgnoreComment(_)
findIgnoreComment(comments) ==
    IF Len(comments) = 0 THEN JsUndefined
    ELSE IF trim(Head(comments).value) = PrettierIgnore THEN Head(comments)
    ELSE findIgnoreComment(Tail(comments))

\* lines 624-652, with the value the `&&` chain of lines 643-651 gives
hasJsxIgnoreComment(path) ==
    LET node == path.node
        parent == path.parent
    IN  IF IsNull(parent) \/ IsNull(node) \/ ~isJSXNode(node) \/ ~isJSXNode(parent)
        THEN Bool(FALSE)
        ELSE LET index == indexOf(parent.children, node)
                 prevSibling == prevSiblingFrom(parent.children, index)
             IN  IF IsNull(prevSibling) THEN JsNull
                 ELSE IF prevSibling.type # "JSXExpressionContainer" THEN Bool(FALSE)
                 ELSE IF prevSibling.expression.type # "JSXEmptyExpression"
                 THEN Bool(FALSE)
                 ELSE IF ~Has(prevSibling.expression, "comments") THEN JsUndefined
                 ELSE findIgnoreComment(prevSibling.expression.comments)

(***************************************************************************)
(* Inputs of hasJsxIgnoreComment: the node, and a parent whose children    *)
(* are siblings followed by the node.                                      *)
(***************************************************************************)
JSXText(raw) == [type |-> "JSXText", raw |-> raw]

JSXEmptyExpression(comments) == [type |-> "JSXEmptyExpression", comments |-> comments]

JSXExpressionContainer(e) == [type |-> "JSXExpressionContainer", expression |-> e]

BlockCommentOf(value) == [type |-> "CommentBlock", value |-> value]

IgnoreComment == BlockCommentOf(<<" ">> \o PrettierIgnore \o <<" ", "\n">>)

OtherComment == BlockCommentOf(PrettierIgnore \o <<" ", "x">>)

\* what stands before the node: texts of white space with and without a line
\* break, an empty text, a text of words, containers with and without the
\* directive, another element
Siblings ==
    {JSXText(<<"\n", " ", " ">>), JSXText(<<" ">>), JSXText(<<"\t", "\r">>),
     JSXText(<<>>), JSXText(<<"\n", "x">>),
     [type |-> "JSXText", raw |-> <<"x">>, extra |-> [raw |-> <<" ", "\n">>]],
     JSXExpressionContainer(JSXEmptyExpression(<<IgnoreComment>>)),
     JSXExpressionContainer(JSXEmptyExpression(<<OtherComment, BlockCommentOf(PrettierIgnore)>>)),
     JSXExpressionContainer(JSXEmptyExpression(<<OtherComment>>)),
     JSXExpressionContainer(JSXEmptyExpression(<<>>)),
     JSXExpressionContainer(Leaf("JSXEmptyExpression")),
     JSXExpressionContainer(Id),
     [type |-> "JSXElement", start |-> 1]}

\* the lists of n siblings at most
RECURSIVE SiblingLists(_)
SiblingLists(n) ==
    IF n = 0 THEN {<<>>}
    ELSE LET shorter == SiblingLists(n - 1)
         IN  shorter \cup {Append(l, s) : l \in {m \in shorter : Len(m) = n - 1},
                                          s \in Siblings}

JsxNodes ==
    {[type |-> "JSXElement", start |-> 9], [type |-> "JSXFragment", start |-> 9],
     JSXExpressionContainer(Id)}

\* a parent with the node as its last child or before a text, a parent that is no
\* JSX node, and no parent
JsxPaths(n) ==
    {[node |-> x, parent |-> [type |-> t, children |-> l \o <<x>> \o tl]] :
        x \in JsxNodes, t \in {"JSXElement", "JSXFragment"}, l \in SiblingLists(n),
        tl \in {<<>>, <<JSXText(<<"\n">>)>>}}
    \cup {[node |-> x, parent |-> [type |-> "ReturnStatement", argument |-> x]] :
            x \in JsxNodes}
    \cup {[node |-> x,
           parent |-> [type |-> "JSXAttribute",
                       children |-> <<JSXExpressionContainer(
                                        JSXEmptyExpression(<<IgnoreComment>>)), x>>]] :
            x \in JsxNodes}
    \cup {[node |-> x, parent |-> JsNull] : x \in JsxNodes}

InitJsxIgnore ==
    /\ fn = "hasJsxIgnoreComment"
    /\ arg \in JsxPaths(MaxSiblings)
    /\ pc = "call"
    /\ Idle

CallHasJsxIgnoreComment ==
    Finish("hasJsxIgnoreComment", Returns(hasJsxIgnoreComment(arg)))

NextJsxIgnore == CallHasJsxIgnoreComment

SpecJsxIgnore == InitJsxIgnore /\ [][NextJsxIgnore]_vars

\* a text of white space only
IsWhitespaceOnlyText(n) ==
    n.type = "JSXText" /\ \A k \in 1..Len(rawText(n)) : rawText(n)[k] \in jsxWhitespaceChars

\* an expression container wrapping an empty expression that carries a comment
\* whose trimmed text is the directive
IsIgnoreContainer(n) ==
    /\ n.type = "JSXExpressionContainer"
    /\ n.expression.type = "JSXEmptyExpression"
    /\ Has(n.expression, "comments")
    /\ \E k \in 1..Len(n.expression.comments) :
          trim(n.expression.comments[k].value) = PrettierIgnore

\* the position of the node among the children of its parent (the node is there
\* once)
PositionOfNode ==
    CHOOSE k \in 1..Len(arg.parent.children) : arg.parent.children[k] = arg.node

BothJsx ==
    /\ ~IsNull(arg.parent)
    /\ isJSXNode(arg.node)
    /\ isJSXNode(arg.parent)

(***************************************************************************)
(* C14: for a JSX node whose parent is a JSX node, hasJsxIgnoreComment is  *)
(* truthy if and only if the nearest previous sibling, found by skipping   *)
(* every whitespace-only text node (with or without a newline in it), is   *)
(* an expression container wrapping an empty expression that carries a     *)
(* comment whose trimmed text is `prettier-ignore`; it is false for a      *)
(* first child, when every previous sibling is whitespace-only text, and   *)
(* when the node or its parent is no JSX element or fragment.              *)
(***************************************************************************)
C14_SkipsAllWhitespaceText ==
    Returned("hasJsxIgnoreComment") =>
        (~Falsy(ret.value) <=>
            /\ BothJsx
            /\ \E j \in 1..(PositionOfNode - 1) :
                  /\ IsIgnoreContainer(arg.parent.children[j])
                  /\ \A k \in (j + 1)..(PositionOfNode - 1) :
                        IsWhitespaceOnlyText(arg.parent.children[k]))

\* C14 amended: only the texts of white space that hold a line break are skipped
C14_SkipsWhitespaceWithNewline ==
    Returned("hasJsxIgnoreComment") =>
        (~Falsy(ret.value) <=>
            /\ BothJsx
            /\ \E j \in 1..(PositionOfNode - 1) :
                  /\ IsIgnoreContainer(arg.parent.children[j])
                  /\ \A k \in (j + 1)..(PositionOfNode - 1) :
                        /\ IsWhitespaceOnlyText(arg.parent.children[k])
                        /\ containsNewline(rawText(arg.parent.children[k])))

\* the directive was found across a text of white space with a line break
C14_Witness ==
    /\ Returned("hasJsxIgnoreComment")
    /\ BothJsx
    /\ PositionOfNode = 3
    /\ IsIgnoreContainer(arg.parent.children[1])
    /\ IsWhitespaceOnlyText(arg.parent.children[2])
    /\ ~Falsy(ret.value)

(***************************************************************************)
(* isTestCall on calls with one argument, utils.js 369-380.                *)
(***************************************************************************)
\* a before/after Each/All setup hook
IsSetUpHook(n) ==
    /\ n.callee.type = "Identifier"
    /\ n.callee.name \in {"beforeEach", "beforeAll", "afterEach", "afterAll"}

\* the enclosing call is itself a test call
ParentIsTestCall == ~IsUndefined(arg.parent) /\ isTestCall(arg.parent, JsUndefined)

\* isTestCall returned on a call with one argument or on a node that is no
\* CallExpression
ReturnedOnOneArgument ==
    /\ Returned("isTestCall")
    /\ arg.n.type = "CallExpression" => Len(arg.n.arguments) = 1

(***************************************************************************)
(* C15: for a CallExpression with exactly one argument, isTestCall(n,      *)
(* parent) is true if and only if (a) n is a before/after Each/All setup   *)
(* hook and its argument is an async-wrapper call (callee async, inject or *)
(* fakeAsync), or (b) n's argument is an async-wrapper call and the        *)
(* enclosing call `parent` is itself a test call; it is false in every     *)
(* other one-argument case and for every node that is no CallExpression.   *)
(***************************************************************************)
C15_OneArgumentAsClaimed ==
    ReturnedOnOneArgument =>
        (ret = TRUE <=>
            /\ arg.n.type = "CallExpression"
            /\ IsWrapperCall(arg.n.arguments[1])
            /\ IsSetUpHook(arg.n) \/ ParentIsTestCall)

\* C15 amended: in (b) it is n itself that is the async-wrapper call, and its
\* argument is a function or arrow expression
C15_OneArgumentAmended ==
    ReturnedOnOneArgument =>
        (ret = TRUE <=>
            /\ arg.n.type = "CallExpression"
            /\ \/ IsSetUpHook(arg.n) /\ IsWrapperCall(arg.n.arguments[1])
               \/ /\ IsWrapperCall(arg.n)
                  /\ ParentIsTestCall
                  /\ IsFunctionOrArrow(arg.n.arguments[1]))

\* the wrapper call async(function () {}) inside it("x", ...) is a test call
C15_Witness ==
    /\ Returned("isTestCall")
    /\ arg.n = Call("CallExpression", Identifier("async"), <<FunctionExpression(0)>>)
    /\ ParentIsTestCall
    /\ ret = TRUE

(***************************************************************************)
(* getConditionalChainContents and conditionalExpressionChainContainsJSX,  *)
(* utils.js 827-889.                                                       *)
(***************************************************************************)
MaxTernaryDepth == 3  \* nesting height of the conditional expressions

\* Mutant: only the alternate of a conditional expression is gone into; its test
\* and consequent are taken as they are.
RECURSIVE getConditionalChainContents_AlternateOnly(_)
getConditionalChainContents_AlternateOnly(node) ==
    IF node.type = "ConditionalExpression"
    THEN <<node.test, node.consequent>>
            \o getConditionalChainContents_AlternateOnly(node.alternate)
    ELSE <<node>>

\* lines 871-884: the list `recurse` fills, in the order of its pushes
RECURSIVE getConditionalChainContents(_)
getConditionalChainContents(node) ==
    IF node.type = "ConditionalExpression"
    THEN getConditionalChainContents(node.test)
            \o getConditionalChainContents(node.consequent)
            \o getConditionalChainContents(node.alternate)
    ELSE <<node>>

\* lines 887-889: Boolean(contents.find(isJSXNode))
conditionalExpressionChainContainsJSX(node) ==
    LET contents == getConditionalChainContents(node)
    IN  \E k \in 1..Len(contents) : isJSXNode(contents[k])

(***************************************************************************)
(* Inputs: conditional expressions over identifiers, markup and calls that *)
(* hold markup.                                                            *)
(***************************************************************************)
ConditionalExpression(t, c, a) ==
    [type |-> "ConditionalExpression", test |-> t, consequent |-> c, alternate |-> a]

TernaryLeaves ==
    {Id, Identifier("b"), Leaf("JSXElement"), Leaf("JSXFragment"),
     Call("CallExpression", Id, <<Leaf("JSXElement")>>),
     [type |-> "JSXExpressionContainer", expression |-> Leaf("JSXElement")]}

CallWithMarkup == Call("CallExpression", Id, <<Leaf("JSXElement")>>)

\* the conditional expressions with x as test, as consequent and as alternate
TernaryWrap(x) ==
    {ConditionalExpression(x, Id, Id),
     ConditionalExpression(Id, x, Id),
     ConditionalExpression(Id, Id, x),
     ConditionalExpression(x, CallWithMarkup, Id),
     ConditionalExpression(CallWithMarkup, x, CallWithMarkup),
     ConditionalExpression(Id, Leaf("JSXFragment"), x),
     ConditionalExpression(x, Id, x)}

\* the expressions of height h at most
RECURSIVE Ternaries(_)
Ternaries(h) ==
    IF h = 0 THEN TernaryLeaves
    ELSE LET sub == Ternaries(h - 1)
         IN  TernaryLeaves \cup UNION {TernaryWrap(x) : x \in sub}

\* A ? B : C ? D : E ? F ? G : H : I, the example of lines 832-866
ChainAToI ==
    ConditionalExpression(Identifier("A"), Identifier("B"),
        ConditionalExpression(Identifier("C"), Identifier("D"),
            ConditionalExpression(Identifier("E"),
                ConditionalExpression(Identifier("F"), Identifier("G"), Identifier("H")),
                Identifier("I"))))

InitTernary ==
    /\ fn = "conditionalExpressionChainContainsJSX"
    /\ arg \in [node : Ternaries(MaxTernaryDepth) \cup {ChainAToI}]
    /\ pc = "call"
    /\ Idle

CallConditionalExpressionChainContainsJSX ==
    Finish("conditionalExpressionChainContainsJSX",
           Returns(conditionalExpressionChainContainsJSX(arg.node)))

NextTernary == CallConditionalExpressionChainContainsJSX

SpecTernary == InitTernary /\ [][NextTernary]_vars

IsTernary(n) == n.type = "ConditionalExpression"

\* some leaf of the chain is markup: a leaf is reached through the test, the
\* consequent or the alternate of conditional expressions only
RECURSIVE HasMarkupLeaf(_)
HasMarkupLeaf(n) ==
    IF IsTernary(n)
    THEN HasMarkupLeaf(n.test) \/ HasMarkupLeaf(n.consequent) \/ HasMarkupLeaf(n.alternate)
    ELSE n.type \in {"JSXElement", "JSXFragment"}

\* the number of leaves of the chain
RECURSIVE CountLeaves(_)
CountLeaves(n) ==
    IF IsTernary(n)
    THEN CountLeaves(n.test) + CountLeaves(n.consequent) + CountLeaves(n.alternate)
    ELSE 1

LettersAToI ==
    <<Identifier("A"), Identifier("B"), Identifier("C"), Identifier("D"),
      Identifier("E"), Identifier("F"), Identifier("G"), Identifier("H"),
      Identifier("I")>>

(***************************************************************************)
(* C16: conditionalExpressionChainContainsJSX(node) is true if and only if *)
(* at least one non-ternary leaf of the chain is a JSXElement or           *)
(* JSXFragment; the leaves are those reached by going into a nested        *)
(* ConditionalExpression wherever it stands (test, consequent or           *)
(* alternate), collected from left to right; markup inside a leaf that is  *)
(* no conditional expression (a call argument) does not count.             *)
(***************************************************************************)
C16_JsxLeafOfChain ==
    Returned("conditionalExpressionChainContainsJSX") =>
        LET contents == getConditionalChainContents(arg.node)
        IN  /\ ret.value = HasMarkupLeaf(arg.node)
            /\ Len(contents) = CountLeaves(arg.node)
            /\ \A k \in 1..Len(contents) : ~IsTernary(contents[k])
            /\ arg.node = ChainAToI => contents = LettersAToI
            /\ arg.node = Call("CallExpression", Id, <<Leaf("JSXElement")>>)
                  => ret.value = FALSE

\* markup was found in the consequent of a conditional expression that is itself
\* the test of another
C16_Witness ==
    /\ Returned("conditionalExpressionChainContainsJSX")
    /\ arg.node = ConditionalExpression(
                      ConditionalExpression(Id, Leaf("JSXElement"), Id), Id, Id)
    /\ ret.value = TRUE

(***************************************************************************)
(* C17: isSimpleCallArgument is monotone in its depth: for every node x    *)
(* and all depths d' <= d, if isSimpleCallArgument(x, d) is true then      *)
(* isSimpleCallArgument(x, d') is true; a greater starting depth turns     *)
(* true into false only, never false into true.                            *)
(***************************************************************************)
C17_MonotoneInDepth ==
    (Returned("isSimpleCallArgument") /\ ret = TRUE) =>
        \A d \in 0..arg.depth : isSimpleCallArgument(arg.node, d)

\* a.a is simple at depth 1, hence at depth 0, and no more at depth 2
C17_Witness ==
    /\ Returned("isSimpleCallArgument")
    /\ arg.node = Member("MemberExpression", Id, Id)
    /\ arg.depth = 1
    /\ ret = TRUE
    /\ isSimpleCallArgument(arg.node, 0)
    /\ ~isSimpleCallArgument(arg.node, 2)

====
